---------------------------- MODULE Spec2Model ----------------------------
(***************************************************************************)
(* RF signal decoding and pairing engine of the relay-switch firmware:     *)
(*   - the signal parser (rfcodes/signal_parser.c, rfcodes/protocols.h),   *)
(*   - the interrupt-fed ring buffer (rfcodes/signal_collector.c),         *)
(*   - the pairing gate and hold detection (rf.h, pairing.h, relays.h).    *)
(* Strings are sequences of one-character strings, so that formatting and  *)
(* parsing of "<protocol> <sequence>" are computed, not assumed.           *)
(***************************************************************************)
EXTENDS Integers, Sequences, FiniteSets, TLC

(***************************************************************************)
(* signal_parser.h: code roles and limits                                  *)
(***************************************************************************)
CODE_TYPE_START == 1
CODE_TYPE_DATA == 2
CODE_TYPE_END == 4
CODE_TYPE_ANYDATA == 3
CODE_TYPE_ANY == 6
MAX_TIMELENGTH == 8
MAX_CODELENGTH == 8
MAX_SEQUENCE_LENGTH == 120
PROTNAME_LEN == 12

\* type & mask for the single-bit and two-bit masks of code_type_t
BitAnd(type, mask) ==
    LET bit(x, b) == (x \div b) % 2
    IN  (IF bit(type, 1) = 1 /\ bit(mask, 1) = 1 THEN 1 ELSE 0)
      + (IF bit(type, 2) = 1 /\ bit(mask, 2) = 1 THEN 2 ELSE 0)
      + (IF bit(type, 4) = 1 /\ bit(mask, 4) = 1 THEN 4 ELSE 0)

(***************************************************************************)
(* protocols.h: the protocol table.  time holds the ratios up to the 0     *)
(* terminator, codes the entries up to the {.name = 0} terminator.         *)
(***************************************************************************)
protocol_it1 ==
    [ name |-> <<"i", "t", "1">>, min_code_len |-> 13, max_code_len |-> 13,
      tolerance |-> 25, send_repeat |-> 4, base_time |-> 400,
      codes |-> << [type |-> CODE_TYPE_START, name |-> "B", time |-> <<1, 31>>],
                   [type |-> CODE_TYPE_DATA, name |-> "0", time |-> <<1, 3, 3, 1>>],
                   [type |-> CODE_TYPE_DATA, name |-> "1", time |-> <<1, 3, 1, 3>>] >> ]

protocol_it2 ==
    [ name |-> <<"i", "t", "2">>, min_code_len |-> 34, max_code_len |-> 48,
      tolerance |-> 25, send_repeat |-> 10, base_time |-> 280,
      codes |-> << [type |-> CODE_TYPE_START, name |-> "s", time |-> <<1, 10>>],
                   [type |-> CODE_TYPE_DATA, name |-> "_", time |-> <<1, 1, 1, 5>>],
                   [type |-> CODE_TYPE_DATA, name |-> "#", time |-> <<1, 5, 1, 1>>],
                   [type |-> CODE_TYPE_DATA, name |-> "D", time |-> <<1, 1, 1, 1>>],
                   [type |-> CODE_TYPE_END, name |-> "x", time |-> <<1, 38>>] >> ]

protocol_sc5 ==
    [ name |-> <<"s", "c", "5">>, min_code_len |-> 13, max_code_len |-> 13,
      tolerance |-> 25, send_repeat |-> 3, base_time |-> 100,
      codes |-> << [type |-> CODE_TYPE_ANYDATA, name |-> "0", time |-> <<4, 12, 4, 12>>],
                   [type |-> CODE_TYPE_ANYDATA, name |-> "1", time |-> <<12, 4, 12, 4>>],
                   [type |-> CODE_TYPE_ANYDATA, name |-> "f", time |-> <<4, 12, 12, 4>>],
                   [type |-> CODE_TYPE_END, name |-> "S", time |-> <<4, 124>>] >> ]

protocol_ev1527 ==
    [ name |-> <<"e", "v", "1", "5", "2", "7">>, min_code_len |-> 25, max_code_len |-> 25,
      tolerance |-> 25, send_repeat |-> 3, base_time |-> 320,
      codes |-> << [type |-> CODE_TYPE_START, name |-> "s", time |-> <<1, 31>>],
                   [type |-> CODE_TYPE_DATA, name |-> "0", time |-> <<1, 3>>],
                   [type |-> CODE_TYPE_DATA, name |-> "1", time |-> <<3, 1>>] >> ]

protocol_cw ==
    [ name |-> <<"c", "w">>, min_code_len |-> 59, max_code_len |-> 59,
      tolerance |-> 16, send_repeat |-> 3, base_time |-> 500,
      codes |-> << [type |-> CODE_TYPE_START, name |-> "H", time |-> <<2, 2, 2, 2, 2>>],
                   [type |-> CODE_TYPE_DATA, name |-> "s", time |-> <<1, 1>>],
                   [type |-> CODE_TYPE_DATA, name |-> "l", time |-> <<2>>] >> ]

\* a table as a caller of signal_parser_load may define it, with a code of each of
\* the roles Start, Data, Any (Data | End) and End of code_type_t
protocol_any ==
    [ name |-> <<"a", "n", "y">>, min_code_len |-> 3, max_code_len |-> 4,
      tolerance |-> 25, send_repeat |-> 1, base_time |-> 200,
      codes |-> << [type |-> CODE_TYPE_START, name |-> "s", time |-> <<1, 10>>],
                   [type |-> CODE_TYPE_DATA, name |-> "0", time |-> <<1, 3>>],
                   [type |-> CODE_TYPE_ANY, name |-> "e", time |-> <<3, 1>>],
                   [type |-> CODE_TYPE_END, name |-> "x", time |-> <<1, 20>>] >> ]

ProtocolIds == {"it1", "it2", "sc5", "ev1527", "cw"}

\* the static part of the signal_protocol_t a protocol id stands for
Def(id) ==
    CASE id = "it1" -> protocol_it1
      [] id = "it2" -> protocol_it2
      [] id = "sc5" -> protocol_sc5
      [] id = "ev1527" -> protocol_ev1527
      [] id = "cw" -> protocol_cw
      [] id = "any" -> protocol_any

(***************************************************************************)
(* signal_parser.c                                                         *)
(* A loaded protocol p is [id, seq, codes]; codes[n] holds the mutable     *)
(* members of signal_code_t: valid, cnt, total, min_time, max_time.        *)
(* Slot i of the C arrays is element i+1 here.                             *)
(***************************************************************************)
SumSeq(s) ==
    LET RECURSIVE Sum(_)
        Sum(k) == IF k = 0 THEN 0 ELSE s[k] + Sum(k - 1)
    IN  Sum(Len(s))

\* int radius = (t * protocol->tolerance) / 100
Radius(t, tolerance) == (t * tolerance) \div 100

\* variant: a reset that marks the codes valid and keeps their counts
MutResetCodes(p) ==
    [p EXCEPT !.codes = [n \in 1..Len(p.codes) |-> [p.codes[n] EXCEPT !.valid = TRUE]]]

\* recalc_protocol: every slot's window from base_time; protocol->base_time is not written
recalc_protocol(p, base_time) ==
    [p EXCEPT !.codes =
        [n \in 1..Len(p.codes) |->
            [p.codes[n] EXCEPT
                !.min_time = [tl \in 1..Len(Def(p.id).codes[n].time) |->
                    LET t == base_time * Def(p.id).codes[n].time[tl]
                    IN  t - Radius(t, Def(p.id).tolerance)],
                !.max_time = [tl \in 1..Len(Def(p.id).codes[n].time) |->
                    LET t == base_time * Def(p.id).codes[n].time[tl]
                    IN  t + Radius(t, Def(p.id).tolerance)]]]]

reset_codes(p) ==
    [p EXCEPT !.codes =
        [n \in 1..Len(p.codes) |->
            [p.codes[n] EXCEPT !.valid = TRUE, !.cnt = 0, !.total = 0]]]

\* variant: a reset that keeps the windows of the last start code
MutResetProtocol(p) == reset_codes([p EXCEPT !.seq = <<>>])

\* reset_protocol: seq_len = 0, reset_codes, recalc_protocol with the nominal base time
reset_protocol(p) ==
    recalc_protocol(reset_codes([p EXCEPT !.seq = <<>>]), Def(p.id).base_time)

\* signal_parser_load: time_length and code_length are the lengths of the
\* tables, then recalc_protocol and reset_protocol
signal_parser_load(id) ==
    reset_protocol(recalc_protocol(
        [ id |-> id, seq |-> <<>>,
          codes |-> [n \in 1..Len(Def(id).codes) |->
                        [valid |-> TRUE, cnt |-> 0, total |-> 0,
                         min_time |-> [tl \in 1..Len(Def(id).codes[n].time) |-> 0],
                         max_time |-> [tl \in 1..Len(Def(id).codes[n].time) |-> 0]]] ],
        Def(id).base_time))

\* use_callback: snprintf(code, ..., "%s %s", protocol->name, protocol->seq)
use_callback(p) == Def(p.id).name \o <<" ">> \o p.seq

\* variant: a parser that keeps the nominal base time on a start code
MutStartBase(id, n, total) == Def(id).base_time

\* recalc_protocol(protocol, c->total / all_times) on the first code of a sequence
StartBase(id, n, total) == total \div SumSeq(Def(id).codes[n].time)

\* variant: a parser that delivers a sequence one code before max_code_len
MutFinishCode(p, type) ==
    IF type = CODE_TYPE_END /\ Len(p.seq) < Def(p.id).min_code_len
    THEN [p |-> reset_protocol(p), out |-> <<>>]
    ELSE IF BitAnd(type, CODE_TYPE_END) # 0 /\ Len(p.seq) >= Def(p.id).min_code_len
    THEN [p |-> reset_protocol(p), out |-> <<use_callback(p)>>]
    ELSE IF Len(p.seq) >= Def(p.id).max_code_len - 1
    THEN [p |-> reset_protocol(p), out |-> <<use_callback(p)>>]
    ELSE [p |-> p, out |-> <<>>]

\* variant: a parser without the test for max_code_len
MutFinishNoMax(p, type) ==
    IF type = CODE_TYPE_END /\ Len(p.seq) < Def(p.id).min_code_len
    THEN [p |-> reset_protocol(p), out |-> <<>>]
    ELSE IF BitAnd(type, CODE_TYPE_END) # 0 /\ Len(p.seq) >= Def(p.id).min_code_len
    THEN [p |-> reset_protocol(p), out |-> <<use_callback(p)>>]
    ELSE [p |-> p, out |-> <<>>]

\* variant: a parser that keeps the session after it delivered a sequence
MutFinishNoReset(p, type) ==
    IF type = CODE_TYPE_END /\ Len(p.seq) < Def(p.id).min_code_len
    THEN [p |-> reset_protocol(p), out |-> <<>>]
    ELSE IF BitAnd(type, CODE_TYPE_END) # 0 /\ Len(p.seq) >= Def(p.id).min_code_len
    THEN [p |-> p, out |-> <<use_callback(p)>>]
    ELSE IF Len(p.seq) = Def(p.id).max_code_len
    THEN [p |-> p, out |-> <<use_callback(p)>>]
    ELSE [p |-> p, out |-> <<>>]

\* variant: a parser that discards a short sequence on every code that can end one
MutFinishAnyEnd(p, type) ==
    IF BitAnd(type, CODE_TYPE_END) # 0 /\ Len(p.seq) < Def(p.id).min_code_len
    THEN [p |-> reset_protocol(p), out |-> <<>>]
    ELSE IF BitAnd(type, CODE_TYPE_END) # 0 /\ Len(p.seq) >= Def(p.id).min_code_len
    THEN [p |-> reset_protocol(p), out |-> <<use_callback(p)>>]
    ELSE IF Len(p.seq) = Def(p.id).max_code_len
    THEN [p |-> reset_protocol(p), out |-> <<use_callback(p)>>]
    ELSE [p |-> p, out |-> <<>>]

\* the three-way termination test after a code was appended and the codes reset;
\* result: the protocol and the strings handed to the callback
FinishCode(p, type) ==
    IF type = CODE_TYPE_END /\ Len(p.seq) < Def(p.id).min_code_len
    THEN [p |-> reset_protocol(p), out |-> <<>>]
    ELSE IF BitAnd(type, CODE_TYPE_END) # 0 /\ Len(p.seq) >= Def(p.id).min_code_len
    THEN [p |-> reset_protocol(p), out |-> <<use_callback(p)>>]
    ELSE IF Len(p.seq) = Def(p.id).max_code_len
    THEN [p |-> reset_protocol(p), out |-> <<use_callback(p)>>]
    ELSE [p |-> p, out |-> <<>>]

\* variant: a parser that never retries a failed duration as the start of a new code
MutClassify(p, n, duration) ==
    IF Len(p.seq) = 0 /\ BitAnd(Def(p.id).codes[n].type, CODE_TYPE_START) = 0
    THEN "not_start"
    ELSE IF Len(p.seq) > 0 /\ BitAnd(Def(p.id).codes[n].type, CODE_TYPE_ANY) = 0
    THEN "not_data"
    ELSE IF duration < p.codes[n].min_time[p.codes[n].cnt + 1]
            \/ duration > p.codes[n].max_time[p.codes[n].cnt + 1]
    THEN "misfit"
    ELSE "matched"

\* variant: a parser that also retries in the middle of a sequence
MutClassifyAnySeq(p, n, duration) ==
    IF Len(p.seq) = 0 /\ BitAnd(Def(p.id).codes[n].type, CODE_TYPE_START) = 0
    THEN "not_start"
    ELSE IF Len(p.seq) > 0 /\ BitAnd(Def(p.id).codes[n].type, CODE_TYPE_ANY) = 0
    THEN "not_data"
    ELSE IF duration < p.codes[n].min_time[p.codes[n].cnt + 1]
            \/ duration > p.codes[n].max_time[p.codes[n].cnt + 1]
    THEN (IF p.codes[n].cnt = 1 THEN "retry" ELSE "misfit")
    ELSE "matched"

\* the if / else-if chain of parse_protocol on a valid code n
Classify(p, n, duration) ==
    IF Len(p.seq) = 0 /\ BitAnd(Def(p.id).codes[n].type, CODE_TYPE_START) = 0
    THEN "not_start"
    ELSE IF Len(p.seq) > 0 /\ BitAnd(Def(p.id).codes[n].type, CODE_TYPE_ANY) = 0
    THEN "not_data"
    ELSE IF duration < p.codes[n].min_time[p.codes[n].cnt + 1]
            \/ duration > p.codes[n].max_time[p.codes[n].cnt + 1]
    THEN (IF p.codes[n].cnt = 1 /\ Len(p.seq) = 0 THEN "retry" ELSE "misfit")
    ELSE "matched"

\* c->total += duration; c->valid = matched; c->cnt = i + 1 on a match
WriteBack(p, n, matched, duration) ==
    IF matched
    THEN [p EXCEPT !.codes[n].total = @ + duration, !.codes[n].cnt = @ + 1]
    ELSE [p EXCEPT !.codes[n].valid = FALSE]

\* variant: a parser that recalibrates on every code
MutAddCode(p, n, first) ==
    reset_codes([recalc_protocol(p, StartBase(p.id, n, p.codes[n].total))
                 EXCEPT !.seq = Append(@, Def(p.id).codes[n].name)])

\* all timings of code n received, p.seq still without its character:
\* recalibrate on the first code, add the character, reset the codes
AddCode(p, n, first) ==
    reset_codes([(IF first THEN recalc_protocol(p, StartBase(p.id, n, p.codes[n].total))
                  ELSE p)
                 EXCEPT !.seq = Append(@, Def(p.id).codes[n].name)])

\* retry_candidate: the loop looks at the same code once more; retries counts how
\* often that happened in the call
Retried(r) == [r EXCEPT !.retries = @ + 1]

\* the while loop of parse_protocol from code n on; any_valid as accumulated so far
RECURSIVE ParseLoop(_, _, _, _)
RECURSIVE ParseCode(_, _, _, _, _)
ParseCode(p, duration, n, any_valid, class) ==
    IF class = "retry"
    THEN \* reset the protocol and look at this code once more
         Retried(ParseLoop(reset_protocol(WriteBack(p, n, FALSE, duration)),
                           duration, n, any_valid))
    ELSE IF class # "matched"
    THEN ParseLoop(WriteBack(p, n, FALSE, duration), duration, n + 1, any_valid)
    ELSE IF p.codes[n].cnt + 1 # Len(Def(p.id).codes[n].time)
    THEN ParseLoop(WriteBack(p, n, TRUE, duration), duration, n + 1, TRUE)
    ELSE \* the code is complete: break
         [any_valid |-> TRUE, retries |-> 0,
          fin |-> FinishCode(AddCode(WriteBack(p, n, TRUE, duration), n, Len(p.seq) = 0),
                             Def(p.id).codes[n].type)]

ParseLoop(p, duration, n, any_valid) ==
    IF n > Len(p.codes)
    THEN [any_valid |-> any_valid, retries |-> 0, fin |-> [p |-> p, out |-> <<>>]]
    ELSE IF ~p.codes[n].valid
    THEN ParseLoop(p, duration, n + 1, any_valid)
    ELSE ParseCode(p, duration, n, any_valid, Classify(p, n, duration))

\* variant: a parser that keeps the session when no code is valid any more
MutAfterLoop(r) == r.fin

\* if (!any_valid) reset_protocol
AfterLoop(r) ==
    IF r.any_valid THEN r.fin ELSE [p |-> reset_protocol(r.fin.p), out |-> r.fin.out]

parse_protocol(p, duration) == AfterLoop(ParseLoop(p, duration, 1, FALSE))

\* signal_parser_parse: every loaded protocol sees the duration, in load order;
\* result: the protocols and the strings handed to the callback, in order
RECURSIVE ParseFrom(_, _, _, _)
ParseStep(ps, duration, n, out, r) ==
    ParseFrom([ps EXCEPT ![n] = r.p], duration, n + 1, out \o r.out)

ParseFrom(ps, duration, n, out) ==
    IF n > Len(ps)
    THEN [protocols |-> ps, out |-> out]
    ELSE ParseStep(ps, duration, n, out, parse_protocol(ps[n], duration))

signal_parser_parse(ps, duration) == ParseFrom(ps, duration, 1, <<>>)

\* strchr(sequence, ' '): index of the first blank, 0 when there is none
RECURSIVE FirstBlankFrom(_, _)
FirstBlankFrom(str, k) ==
    IF k > Len(str) THEN 0 ELSE IF str[k] = " " THEN k ELSE FirstBlankFrom(str, k + 1)

FirstBlank(str) == FirstBlankFrom(str, 1)

\* find_protocol: index of the first protocol of that name; the loop leaves p at
\* the last protocol when no name matches, and NULL (0) when none is loaded
RECURSIVE FindProtocolFrom(_, _, _)
FindProtocolFrom(ps, name, n) ==
    IF n >= Len(ps) THEN Len(ps)
    ELSE IF Def(ps[n].id).name = name THEN n ELSE FindProtocolFrom(ps, name, n + 1)

find_protocol(ps, name) == FindProtocolFrom(ps, name, 1)

\* find_code: index of the code of that name in the protocol's table, 0 for NULL
RECURSIVE FindCodeFrom(_, _, _)
FindCodeFrom(id, code_name, n) ==
    IF n > Len(Def(id).codes) THEN 0
    ELSE IF Def(id).codes[n].name = code_name THEN n ELSE FindCodeFrom(id, code_name, n + 1)

find_code(id, code_name) == FindCodeFrom(id, code_name, 1)

\* variant: a composer that emits the first slot's timing for every slot
MutSlotTiming(c, i) == (c.min_time[1] + c.max_time[1]) \div 2

\* *timings++ = (c->min_time[i] + c->max_time[i]) / 2
SlotTiming(c, i) == (c.min_time[i] + c.max_time[i]) \div 2

\* variant: a composer that writes a 0 for a character that names no code
MutCodeTimings(p, c) ==
    IF c = 0 THEN <<0>>
    ELSE [i \in 1..Len(p.codes[c].min_time) |-> SlotTiming(p.codes[c], i)]

\* for (i < c->time_length) *timings++ = ...; nothing for a character that names no code
CodeTimings(p, c) ==
    IF c = 0 THEN <<>>
    ELSE [i \in 1..Len(p.codes[c].min_time) |-> SlotTiming(p.codes[c], i)]

\* while (*s && len) { ... s++; len--; } *timings = 0
RECURSIVE ComposeFrom(_, _, _, _)
ComposeFrom(p, sequence, k, len) ==
    IF k > Len(sequence) \/ len = 0 THEN <<0>>
    ELSE CodeTimings(p, find_code(p.id, sequence[k])) \o ComposeFrom(p, sequence, k + 1, len - 1)

ComposeFor(ps, sequence, len, b, n) ==
    IF b = 0 \/ n = 0 THEN <<>> ELSE ComposeFrom(ps[n], sequence, b + 1, len)

ProtocolOf(ps, sequence, b) ==
    IF b = 0 THEN 0 ELSE find_protocol(ps, SubSeq(sequence, 1, b - 1))

\* signal_parser_compose: everything written to timings, the final 0 included;
\* <<>> when nothing is written (no blank in the string, no protocol)
signal_parser_compose(ps, sequence, len) ==
    ComposeFor(ps, sequence, len, FirstBlank(sequence),
               ProtocolOf(ps, sequence, FirstBlank(sequence)))

(***************************************************************************)
(* signal_collector.c: the ring buffer between the edge interrupt and the  *)
(* decode task.  Pointers are offsets from buf88: slot k of the C array is *)
(* element k+1 of buf88 here, and buf88_end is the number of slots.        *)
(***************************************************************************)
SC_BUFFERSIZE == 512

\* variant: a store without the test for a full buffer
MutRingStore(buf, write, cnt, end, t) ==
    [ buf88 |-> [buf EXCEPT ![write + 1] = t],
      ring_write |-> IF write + 1 = end THEN 0 ELSE write + 1,
      buf88_cnt |-> cnt + 1 ]

\* if (buf88_cnt < SC_BUFFERSIZE) { *ring_write++ = t; buf88_cnt++;
\*   if (ring_write == buf88_end) ring_write = buf88; }
\* SC_BUFFERSIZE is the allocated size, buf88_end - buf88
RingStore(buf, write, cnt, end, t) ==
    IF cnt < end
    THEN [ buf88 |-> [buf EXCEPT ![write + 1] = t],
           ring_write |-> IF write + 1 = end THEN 0 ELSE write + 1,
           buf88_cnt |-> cnt + 1 ]
    ELSE [ buf88 |-> buf, ring_write |-> write, buf88_cnt |-> cnt ]

(***************************************************************************)
(* rf.h, pairing.h, relays.h, status_led.h: the pairing gate.  g is the    *)
(* record of the statics of these files; now is the uint32_t millisecond   *)
(* clock value the handler reads.                                          *)
(***************************************************************************)
RF_DEBOUNCE_MS == 200
RF_HOLD_TIMEOUT_MS == 500
PAIRING_MODE_TIMEOUT_MS == 30000
NUM_RELAYS == 4

\* sizeof(last_rf_code) and sizeof(pairing_state.rf_address)
RF_CODE_SIZE == MAX_SEQUENCE_LENGTH + PROTNAME_LEN + 2
RF_ADDRESS_SIZE == 21

\* Clock values and counts of this model stay below 2^31, where the conversion to
\* uint32_t changes nothing.  a - b in uint32_t arithmetic is a - b for a >= b and
\* 2^32 - (b - a) otherwise; the latter is at least 2^31 here and is shown as the
\* largest integer of TLC, which compares alike with every threshold.
Sub32(a, b) == IF a >= b THEN a - b ELSE 2147483647

\* uint32_t now = esp_timer_get_time() / 1000
NowMs(us) == us \div 1000

\* strncpy(dst, src, n) into a zeroed or terminated buffer: the first n characters
StrNCpy(src, n) == SubSeq(src, 1, IF Len(src) < n THEN Len(src) ELSE n)

\* *data = (*data << 1) | (sequence[21 + i] == '1' ? 1 : 0), i = 0..3
DataBits(sequence) ==
    LET bit(k) == IF sequence[k] = "1" THEN 1 ELSE 0
    IN  8 * bit(22) + 4 * bit(23) + 2 * bit(24) + bit(25)

rf_parse_ev1527(sequence) ==
    IF Len(sequence) # 25 \/ sequence[1] # "s"
    THEN [ok |-> FALSE, address |-> <<>>, data |-> 0]
    ELSE [ok |-> TRUE, address |-> SubSeq(sequence, 2, 21), data |-> DataBits(sequence)]

\* variant: a switch with the buttons in the opposite order
MutButtonOrder(data) ==
    CASE data = 8 -> 3
      [] data = 4 -> 2
      [] data = 2 -> 1
      [] data = 1 -> 0
      [] OTHER -> -1

\* variant: a switch that goes by the highest data bit that is set
MutButtonHighBit(data) ==
    IF data >= 8 THEN 0 ELSE IF data >= 4 THEN 1 ELSE IF data >= 2 THEN 2
    ELSE IF data >= 1 THEN 3 ELSE -1

\* switch (data): the relay of buttons A, B, C, D; -1 for the default branch
ButtonRelay(data) ==
    CASE data = 8 -> 0
      [] data = 4 -> 1
      [] data = 2 -> 2
      [] data = 1 -> 3
      [] OTHER -> -1

\* the last message the callback logged
Log(g, msg) == [g EXCEPT !.log = msg]

\* relay_set: the pin and relay_states, the dirty flag and the change time
relay_set(g, relay_num, state, now) ==
    IF relay_num >= NUM_RELAYS THEN g
    ELSE [g EXCEPT !.relay_pins[relay_num] = state,
                   !.relay_states[relay_num] = state,
                   !.relay_states_dirty = TRUE,
                   !.last_relay_change_time = now]

relay_get(g, relay_num) == IF relay_num >= NUM_RELAYS THEN 0 ELSE g.relay_states[relay_num]

\* status_led_set
status_led_set(g, status) == [g EXCEPT !.current_led_status = status]

\* the outcome of the NVS calls of pairing_save_address; after nvs_set_str succeeded
\* and nvs_commit failed the stored value is either the old or the new one
NvsOutcomes == {"ok", "open_fail", "set_fail", "commit_fail", "commit_fail_stored"}

\* variant: a save that does not copy the address into pairing_state
MutPairingSaveAddress(g, address, out) ==
    [ ok |-> out = "ok",
      g |-> IF out = "ok"
            THEN [g EXCEPT !.nvs_rf_address = address, !.pairing_state.is_paired = TRUE]
            ELSE g ]

\* pairing_save_address: its return value and the state it leaves
pairing_save_address(g, address, out) ==
    [ ok |-> out = "ok",
      g |-> IF out = "ok"
            THEN [g EXCEPT !.nvs_rf_address = address,
                           !.pairing_state.rf_address = StrNCpy(address, RF_ADDRESS_SIZE - 1),
                           !.pairing_state.is_paired = TRUE]
            ELSE IF out = "commit_fail_stored"
            THEN [g EXCEPT !.nvs_rf_address = address]
            ELSE g ]

pairing_enter_mode(g, now) ==
    [g EXCEPT !.pairing_state.pairing_mode_active = TRUE,
              !.pairing_state.pairing_mode_start_time = now]

pairing_exit_mode(g) == [g EXCEPT !.pairing_state.pairing_mode_active = FALSE]

\* the outcome of the NVS calls of pairing_clear, whose return values it ignores; when
\* nvs_commit fails the key is either still stored or erased
ClearOutcomes == {"ok", "open_fail", "erase_fail", "commit_fail", "commit_fail_erased"}

\* pairing_clear: erase the key if the store opens; clear the flag and the address
pairing_clear(g, out) ==
    [g EXCEPT !.nvs_rf_address = IF out \in {"ok", "commit_fail_erased"} THEN <<>> ELSE @,
              !.pairing_state.is_paired = FALSE,
              !.pairing_state.rf_address = <<>>]

\* variant: a timeout that fires at PAIRING_MODE_TIMEOUT_MS already
MutPairingCheckTimeout(g, now) ==
    IF g.pairing_state.pairing_mode_active
       /\ Sub32(now, g.pairing_state.pairing_mode_start_time) >= PAIRING_MODE_TIMEOUT_MS
    THEN pairing_exit_mode(g)
    ELSE g

\* if (pairing_mode_active) { now = ...; if (now - pairing_mode_start_time > TIMEOUT) exit }
pairing_check_timeout(g, now) ==
    IF g.pairing_state.pairing_mode_active
       /\ Sub32(now, g.pairing_state.pairing_mode_start_time) > PAIRING_MODE_TIMEOUT_MS
    THEN pairing_exit_mode(g)
    ELSE g

\* variant: a callback without the duplicate-code debounce
MutDebounced(g, code, now) == FALSE

\* strcmp(code, last_rf_code) == 0 && (now - last_rf_time < RF_DEBOUNCE_MS)
Debounced(g, code, now) ==
    code = g.last_rf_code /\ Sub32(now, g.last_rf_time) < RF_DEBOUNCE_MS

\* variant: a gate that takes every address for the stored one
MutAddressMatches(address, stored) == TRUE

\* strcmp(address, pairing_get_address()) == 0
AddressMatches(address, stored) == address = stored

\* variant: a gate without hold detection
MutHeld(now, last) == FALSE

\* now - last_toggle_time[relay_num] < RF_HOLD_TIMEOUT_MS
Held(now, last) == Sub32(now, last) < RF_HOLD_TIMEOUT_MS

\* variant: a gate that never records the time of a toggle
MutStampToggle(g, relay_num, now) == g

\* last_toggle_time[relay_num] = now
StampToggle(g, relay_num, now) == [g EXCEPT !.last_toggle_time[relay_num] = now]

\* variant: a callback that leaves pairing mode whether or not the address was saved
MutLearned(saved) ==
    IF saved.ok
    THEN Log(status_led_set(pairing_exit_mode(saved.g), "NORMAL"), "paired")
    ELSE Log(pairing_exit_mode(saved.g), "save_failed")

\* if (pairing_save_address(address)) { pairing_exit_mode(); status_led_set(NORMAL); }
Learned(saved) ==
    IF saved.ok
    THEN Log(status_led_set(pairing_exit_mode(saved.g), "NORMAL"), "paired")
    ELSE Log(saved.g, "save_failed")

\* variant: a callback that records the time of every event of a mapped button,
\* suppressed or not
MutButtonEvent(g, relay_num, now) ==
    IF relay_num = -1 THEN Log(g, "unknown_button")
    ELSE IF relay_num >= NUM_RELAYS THEN Log(g, "no_relay")
    ELSE IF Held(now, g.last_toggle_time[relay_num])
    THEN Log(StampToggle(g, relay_num, now), "held")
    ELSE Log(StampToggle(relay_set(g, relay_num, 1 - relay_get(g, relay_num), now),
                         relay_num, now),
             "toggled")

\* the tail of the callback from the switch on the data bits on
ButtonEvent(g, relay_num, now) ==
    IF relay_num = -1 THEN Log(g, "unknown_button")
    ELSE IF relay_num >= NUM_RELAYS THEN Log(g, "no_relay")
    ELSE IF Held(now, g.last_toggle_time[relay_num]) THEN Log(g, "held")
    ELSE Log(StampToggle(relay_set(g, relay_num, 1 - relay_get(g, relay_num), now),
                         relay_num, now),
             "toggled")

\* variant: a callback that handles the learned event as a button press as well
MutGateEvent(g, ev, now, out) ==
    IF ~ev.ok THEN Log(g, "invalid")
    ELSE IF g.pairing_state.pairing_mode_active
    THEN ButtonEvent(Learned(pairing_save_address(g, ev.address, out)),
                     ButtonRelay(ev.data), now)
    ELSE IF ~g.pairing_state.is_paired THEN Log(g, "not_paired")
    ELSE IF ~AddressMatches(ev.address, g.pairing_state.rf_address)
    THEN Log(g, "unknown_address")
    ELSE ButtonEvent(g, ButtonRelay(ev.data), now)

\* the callback from the parsed EV1527 sequence on
GateEvent(g, ev, now, out) ==
    IF ~ev.ok THEN Log(g, "invalid")
    ELSE IF g.pairing_state.pairing_mode_active
    THEN Learned(pairing_save_address(g, ev.address, out))
    ELSE IF ~g.pairing_state.is_paired THEN Log(g, "not_paired")
    ELSE IF ~AddressMatches(ev.address, g.pairing_state.rf_address)
    THEN Log(g, "unknown_address")
    ELSE ButtonEvent(g, ButtonRelay(ev.data), now)

\* the callback after the debounce: split "<protocol> <sequence>" at the first blank
SplitEvent(g, code, space, now, out) ==
    IF space = 0 THEN Log(g, "received")
    ELSE IF space - 1 >= PROTNAME_LEN THEN Log(g, "received")
    ELSE IF SubSeq(code, 1, space - 1) # <<"e", "v", "1", "5", "2", "7">>
    THEN Log(g, "other_protocol")
    ELSE GateEvent(g, rf_parse_ev1527(SubSeq(code, space + 1, Len(code))), now, out)

rf_code_received_callback(g, code, now, out) ==
    IF Debounced(g, code, now) THEN g
    ELSE SplitEvent([g EXCEPT !.last_rf_code = StrNCpy(code, RF_CODE_SIZE - 1),
                              !.last_rf_time = now],
                    code, FirstBlank(code), now, out)

\* pairing_init: the pairing state as loaded from the store
pairing_init(stored) ==
    [ is_paired |-> stored # <<>>, rf_address |-> stored,
      pairing_mode_active |-> FALSE, pairing_mode_start_time |-> 0 ]

(***************************************************************************)
(* State                                                                   *)
(***************************************************************************)
VARIABLES
    protocols,  \* parser->protocols: the loaded protocols with their sessions
    events,     \* the strings handed to the recording callback since the current burst began
    rt,         \* compose-and-decode experiment: sequence, timings, position
    tx,         \* the remote transmitting EV1527 frames: frame, position, jitter record
    snd,        \* signal_collector_send: the pins, the locals of the call, what was driven
    fd,         \* a transmitter of sequences of any protocol, and what the last parse did
    rly,        \* the tasks that set relays and save them: positions, locals, the saved states
    buf88,      \* the ring buffer's slots
    ring_write, \* write cursor
    buf88_read, \* read cursor
    buf88_end,  \* end of buffer + 1
    buf88_cnt,  \* number of samples in the buffer
    last_time,  \* time of the last edge
    loop,       \* signal_collector_loop in the decode task: position, t, the loaded count
    micros,     \* esp_timer_get_time(), microseconds since boot
    ring_hist,  \* history: samples offered, accepted, passed to the parser; count write-backs
    gate,       \* the statics of rf.h, pairing.h, relays.h, status_led.h and the stored address
    obs         \* history: events seen by the callback and the relay toggles they caused

parserVars == <<protocols, events>>
harnessVars == <<rt, tx, snd, fd, rly>>
ringVars == <<buf88, ring_write, buf88_read, buf88_end, buf88_cnt, last_time, loop, ring_hist>>
gateVars == <<gate, obs>>
vars == <<parserVars, harnessVars, ringVars, micros, gateVars>>

(***************************************************************************)
(* The parts of the state a specification leaves alone                     *)
(***************************************************************************)
LoopIdle == [pc |-> "idle", t |-> 0, reg |-> 0]

HistEmpty == [offered |-> <<>>, accepted |-> <<>>, parsed |-> <<>>, dequeued |-> 0]

\* the statics of signal_collector.c before signal_collector_init
RingOff ==
    /\ buf88 = <<>> /\ ring_write = 0 /\ buf88_read = 0 /\ buf88_end = 0 /\ buf88_cnt = 0
    /\ last_time = 0 /\ loop = LoopIdle /\ ring_hist = HistEmpty

Relays == 0..(NUM_RELAYS - 1)

\* the gate after app_main: pairing_init with the stored address (<<>> for none),
\* relays_init without saved states, the status LED set from the pairing state
GateBooted(stored) ==
    [ pairing_state |-> pairing_init(stored),
      nvs_rf_address |-> stored,
      last_rf_code |-> <<>>, last_rf_time |-> 0,
      last_toggle_time |-> [r \in Relays |-> 0],
      relay_pins |-> [r \in Relays |-> 0],
      relay_states |-> [r \in Relays |-> 0],
      relay_states_dirty |-> FALSE, last_relay_change_time |-> 0,
      current_led_status |-> IF stored # <<>> THEN "NORMAL" ELSE "UNPAIRED",
      log |-> "none" ]

ObsEmpty ==
    [ toggled_at |-> [r \in Relays |-> -1],
      press |-> [code |-> <<>>, last_at |-> 0, start |-> 0, toggles |-> 0],
      last |-> [relay |-> -1, since |-> -1, flipped |-> FALSE] ]

GateOff == gate = GateBooted(<<>>) /\ obs = ObsEmpty

(***************************************************************************)
(* Bounds of the experiments                                               *)
(***************************************************************************)
SeqSlack == 1       \* End-terminated sequences have min_code_len .. min_code_len + SeqSlack codes
MaxRounds == 2      \* bursts composed and decoded one after the other

\* sizeof(timings) / sizeof(code_time_t) in signal_collector_send
TIMINGS_LEN == 256

(***************************************************************************)
(* Complete sequences of a protocol: a Start-capable code, then codes with *)
(* the Data role, ended by an End code at min_code_len or more, or by      *)
(* reaching max_code_len.  The data part alternates two chosen codes.      *)
(***************************************************************************)
CodesWith(id, mask) ==
    {Def(id).codes[n].name : n \in {m \in 1..Len(Def(id).codes) :
                                        BitAnd(Def(id).codes[m].type, mask) # 0}}

DataOnlyCodes(id) == CodesWith(id, CODE_TYPE_DATA) \ CodesWith(id, CODE_TYPE_END)

Alternating(c0, a, b, n) == [k \in 1..n |-> IF k = 1 THEN c0 ELSE IF k % 2 = 0 THEN a ELSE b]

CompleteSeqs(id) ==
    LET P == Def(id)
        byMax == {Alternating(c0, a, b, P.max_code_len) :
                     c0 \in CodesWith(id, CODE_TYPE_START),
                     a \in DataOnlyCodes(id), b \in DataOnlyCodes(id)}
        lens == {n \in P.min_code_len..(P.min_code_len + SeqSlack) : n <= P.max_code_len}
        byEnd == UNION {{Append(Alternating(c0, a, b, n - 1), e) :
                             c0 \in CodesWith(id, CODE_TYPE_START),
                             a \in DataOnlyCodes(id), b \in DataOnlyCodes(id),
                             e \in CodesWith(id, CODE_TYPE_END)} : n \in lens}
    IN  byMax \cup byEnd

(***************************************************************************)
(* EV1527 frames on the air: 's', 20 address bits, 4 data bits             *)
(***************************************************************************)
\* the low `width` bits of v, most significant first, as '0'/'1' characters
Bits(v, width) ==
    [k \in 1..width |-> IF (v \div (2 ^ (width - k))) % 2 = 1 THEN "1" ELSE "0"]

\* the k-th remote's 20-bit address: distinct for distinct k, mixed bits
AddrBits(k) == Bits((k * 699051) % (2 ^ 20), 20)

EvFrame(k, data) == <<"s">> \o AddrBits(k) \o Bits(data, 4)

\* the nominal ratios of a sequence of codes of a protocol, slot by slot
RECURSIVE Ratios(_, _)
Ratios(id, seq) ==
    IF seq = <<>> THEN <<>>
    ELSE Def(id).codes[find_code(id, Head(seq))].time \o Ratios(id, Tail(seq))

\* no collector with a send pin: nothing is ever driven
SndOff ==
    [ recv_pin |-> -1, send_pin |-> -1, pc |-> "idle", pin |-> 0, irq |-> TRUE,
      level |-> 0, repeat |-> 0, timings |-> <<>>, t |-> 0,
      calls |-> 0, sent |-> FALSE, want |-> 0, reps |-> 0, driven |-> <<>>,
      self_edges |-> 0 ]

\* the tasks around the relays at rest: the network task and led_task between two
\* calls, the relay states on file all off, nothing counted
RlyOff ==
    [ net |-> [pc |-> "idle", relay |-> 0, state |-> 0],
      led |-> "idle",
      nvs_relay_state |-> [r \in 0..(NUM_RELAYS - 1) |-> 0],
      toggles |-> 0, sets |-> 0 ]

\* no transmitter of SpecSession
FdOff ==
    [ id |-> "ev1527", plan |-> <<>>, ratios |-> <<>>, pos |-> 0, nframe |-> 0, base |-> 0,
      jitter |-> "lo", noise |-> FALSE, clean |-> TRUE, d |-> 0, pre |-> <<>>, out |-> <<>>,
      retries |-> 0, none_valid |-> FALSE,
      kind |-> "none", stray |-> [pos |-> -1, d |-> 0], fresh |-> TRUE ]

TxIdle ==
    [ frame |-> <<>>, ratios |-> <<>>, pos |-> 0, nframe |-> 0, base |-> 0,
      fitNominal |-> TRUE, fitMeasured |-> TRUE, noise |-> FALSE,
      emptyAtStart |-> TRUE, prevBroken |-> FALSE, last |-> "none" ]

RtIdle == [ id |-> "ev1527", round |-> 0, stage |-> "off", sequence |-> <<>>,
            timings |-> <<>>, pos |-> 0 ]

(***************************************************************************)
(* SpecRoundTrip: one protocol loaded, a complete sequence composed by     *)
(* signal_parser_compose and its durations fed to signal_parser_parse.     *)
(***************************************************************************)
RtStart(id, seq, round) ==
    [ id |-> id, round |-> round, stage |-> "compose",
      sequence |-> Def(id).name \o <<" ">> \o seq, timings |-> <<>>, pos |-> 0 ]

InitRoundTrip ==
    \E id \in ProtocolIds :
        /\ protocols = <<signal_parser_load(id)>>
        /\ events = <<>>
        /\ \E seq \in CompleteSeqs(id) : rt = RtStart(id, seq, 1)
        /\ tx = TxIdle /\ snd = SndOff /\ fd = FdOff /\ rly = RlyOff
        /\ RingOff /\ micros = 0 /\ GateOff

RtCompose ==
    /\ rt.stage = "compose"
    /\ rt' = [rt EXCEPT !.stage = "feed",
                        !.timings = signal_parser_compose(protocols, rt.sequence, TIMINGS_LEN)]
    /\ UNCHANGED <<protocols, events, tx, snd, fd, rly, ringVars, micros, gateVars>>

\* the callback of these experiments records the strings it is handed
Deliver(r) ==
    /\ protocols' = r.protocols
    /\ events' = events \o r.out

\* while (*t): the burst ends at the 0 terminator
RtFeed ==
    /\ rt.stage = "feed"
    /\ rt.pos < Len(rt.timings)
    /\ rt.timings[rt.pos + 1] # 0
    /\ Deliver(signal_parser_parse(protocols, rt.timings[rt.pos + 1]))
    /\ rt' = [rt EXCEPT !.pos = rt.pos + 1]
    /\ UNCHANGED <<tx, snd, fd, rly, ringVars, micros, gateVars>>

RtEnd ==
    /\ rt.stage = "feed"
    /\ (rt.pos >= Len(rt.timings) \/ rt.timings[rt.pos + 1] = 0)
    /\ rt' = [rt EXCEPT !.stage = "done"]
    /\ UNCHANGED <<protocols, events, tx, snd, fd, rly, ringVars, micros, gateVars>>

RtAgain ==
    /\ rt.stage = "done"
    /\ rt.round < MaxRounds
    /\ \E seq \in CompleteSeqs(rt.id) : rt' = RtStart(rt.id, seq, rt.round + 1)
    /\ events' = <<>>
    /\ UNCHANGED <<protocols, tx, snd, fd, rly, ringVars, micros, gateVars>>

NextRoundTrip == RtCompose \/ RtFeed \/ RtEnd \/ RtAgain

SpecRoundTrip == InitRoundTrip /\ [][NextRoundTrip]_vars

NumAddrs == 1       \* remotes (addresses) on the air
MaxFrames == 2      \* frames sent one after the other

DecodeData == {1, 8}            \* data nibbles sent: last bit '1' and last bit '0'
NoiseDurations == {100, 5000}   \* below every ratio-1 window, between ratio 3 and ratio 31

TxFrames == {EvFrame(k, data) : k \in 1..NumAddrs, data \in DecodeData}

\* the window the remote aims at: ratio * base -/+ 25 %
TxWindow(base, ratio) ==
    LET t == base * ratio
        r == (t * 25) \div 100
    IN  [lo |-> t - r, mid |-> t, hi |-> t + r]

InTxWindow(d, base, ratio) == TxWindow(base, ratio).lo <= d /\ d <= TxWindow(base, ratio).hi

SessionEmpty(p) ==
    /\ p.seq = <<>>
    /\ \A n \in 1..Len(p.codes) : p.codes[n].valid /\ p.codes[n].cnt = 0 /\ p.codes[n].total = 0

InitDecode ==
    /\ protocols = <<signal_parser_load("ev1527")>>
    /\ events = <<>>
    /\ tx = TxIdle /\ snd = SndOff /\ fd = FdOff /\ rly = RlyOff
    /\ rt = RtIdle
    /\ RingOff /\ micros = 0 /\ GateOff

TxDone == tx.pos = Len(tx.ratios)

\* a remote starts a frame; its oscillator runs at the low end, the middle or the
\* high end of the tolerance, and the start code is sent at that base time
TxBegin ==
    /\ TxDone
    /\ tx.nframe < MaxFrames
    /\ \E f \in TxFrames, dev \in {"lo", "mid", "hi"} :
        tx' = [ frame |-> f, ratios |-> Ratios("ev1527", f), pos |-> 0,
                nframe |-> tx.nframe + 1, base |-> TxWindow(320, 1)[dev],
                fitNominal |-> TRUE, fitMeasured |-> TRUE, noise |-> FALSE,
                emptyAtStart |-> SessionEmpty(protocols[1]),
                prevBroken |-> tx.noise, last |-> "none" ]
    /\ events' = <<>>
    /\ UNCHANGED <<protocols, rt, snd, fd, rly, ringVars, micros, gateVars>>

\* the edge that ends slot pos+1 of the frame: duration d reaches the parser
TxSend(d, kind) ==
    /\ Deliver(signal_parser_parse(protocols, d))
    /\ tx' = [tx EXCEPT
                !.pos = IF kind = "noise" THEN @ ELSE @ + 1,
                !.noise = @ \/ kind = "noise",
                !.fitNominal = @ /\ (kind = "noise" \/ InTxWindow(d, 320, tx.ratios[tx.pos + 1])),
                !.fitMeasured = @ /\ (kind = "noise" \/
                    InTxWindow(d, IF tx.pos < 2 THEN 320 ELSE tx.base, tx.ratios[tx.pos + 1])),
                !.last = kind]
    /\ UNCHANGED <<rt, snd, fd, rly, ringVars, micros, gateVars>>

\* the two slots of the start code, at the remote's base time
TxStart ==
    /\ ~TxDone /\ tx.pos < 2
    /\ TxSend(tx.base * tx.ratios[tx.pos + 1], "signal")

\* a slot of a bit: anywhere in the window around the nominal base time or
\* around the base time of the frame's start code
TxBit ==
    /\ ~TxDone /\ tx.pos >= 2
    /\ \E base \in {320, tx.base}, dev \in {"lo", "mid", "hi"} :
        TxSend(TxWindow(base, tx.ratios[tx.pos + 1])[dev], "signal")

\* a stray pulse in the middle of the frame, at most one per frame
TxNoise ==
    /\ tx.pos >= 1 /\ ~TxDone
    /\ ~tx.noise
    /\ \E d \in NoiseDurations : TxSend(d, "noise")

NextDecode == TxBegin \/ TxStart \/ TxBit \/ TxNoise

SpecDecode == InitDecode /\ [][NextDecode]_vars

EvString(frame) == <<"e", "v", "1", "5", "2", "7", " ">> \o frame

\* C1 as stated: every duration within ratio x 320 -/+ 25 % of its slot, session
\* empty at the start of the frame: exactly one callback, with the frame's string.
C1_NominalWindows ==
    (TxDone /\ tx.nframe > 0 /\ ~tx.noise /\ tx.emptyAtStart /\ tx.fitNominal)
        => events = <<EvString(tx.frame)>>

\* C1 as amended: the two start durations within ratio x 320 -/+ 25 %, every later
\* duration within ratio x b -/+ 25 % for b = (sum of the start durations) div 32:
\* no callback before the frame is complete, exactly one when it is.
C1_MeasuredWindows ==
    (tx.nframe > 0 /\ ~tx.noise /\ tx.emptyAtStart /\ tx.fitMeasured)
        => events = (IF TxDone THEN <<EvString(tx.frame)>> ELSE <<>>)

C1_Witness ==
    /\ TxDone /\ tx.nframe > 0 /\ ~tx.noise /\ tx.emptyAtStart /\ tx.fitMeasured
    /\ ~tx.fitNominal
    /\ tx.base = 240
    /\ events = <<EvString(tx.frame)>>

\* C3: a duration that fits no candidate code, injected in the middle of a frame,
\* leaves the session reset (as after signal_parser_load); the broken frame gives no
\* callback; the next complete frame gives exactly one callback, with its string.
C3_Resync ==
    /\ (tx.last = "noise" => protocols = <<signal_parser_load("ev1527")>>)
    /\ (tx.noise => events = <<>>)
    /\ (tx.prevBroken /\ ~tx.noise /\ tx.fitMeasured
            => events = (IF TxDone THEN <<EvString(tx.frame)>> ELSE <<>>))

\* the frame after a broken one is decoded, although the tail of the broken frame
\* had left the first slot of the start code pending
C3_Witness ==
    /\ tx.prevBroken /\ ~tx.noise /\ TxDone
    /\ ~tx.emptyAtStart
    /\ events = <<EvString(tx.frame)>>

\* C17: every string the parser hands to the callback for protocol ev1527 is
\* "ev1527 " followed by 's' and 24 characters that are '0' or '1'.
C17_EventShape ==
    \A i \in 1..Len(events) :
        /\ Len(events[i]) = 7 + 25
        /\ SubSeq(events[i], 1, 7) = <<"e", "v", "1", "5", "2", "7", " ">>
        /\ events[i][8] = "s"
        /\ \A k \in 9..32 : events[i][k] \in {"0", "1"}

\* the frame of a remote at the high end of the tolerance, sent after a frame that
\* was broken by a stray pulse, was delivered
C17_Witness ==
    /\ Len(events) = 1 /\ Len(events[1]) = 32
    /\ tx.nframe = 2 /\ TxDone /\ tx.base = 400 /\ tx.prevBroken /\ ~tx.fitNominal
    /\ SubSeq(events[1], 8, 32) = tx.frame

(***************************************************************************)
(* The ring buffer.  The interrupt handler runs to completion between any  *)
(* two steps of the task; the task's steps are the accesses of             *)
(* signal_collector_loop to the shared statics: the loop test, the read of *)
(* the slot, and the load and the store of buf88_cnt-- (a volatile         *)
(* read-modify-write is a load and a store).                               *)
(* The k-th edge comes 100 * k microseconds after the one before it, so    *)
(* every sample differs from every other.                                  *)
(***************************************************************************)
RingCap == 3        \* slots of the ring in SpecRing
MaxEdges == 5       \* edges on the receive pin in SpecRing
OverflowExtra == 3  \* samples offered beyond SC_BUFFERSIZE in SpecOverflow

EdgeGap(k) == 100 * k

\* signal_collector_init: the buffer as malloc returns it (contents unspecified,
\* shown as -1; no slot is read before it is written), both cursors at its start
RingInit(size) ==
    /\ buf88 = [k \in 1..size |-> -1]
    /\ ring_write = 0 /\ buf88_read = 0 /\ buf88_end = size /\ buf88_cnt = 0
    /\ last_time = 0 /\ loop = LoopIdle /\ ring_hist = HistEmpty

\* the statics after the body shared by the handler and inject_timing
Enqueue(s, t, now) ==
    /\ buf88' = s.buf88 /\ ring_write' = s.ring_write /\ buf88_cnt' = s.buf88_cnt
    /\ last_time' = now
    /\ micros' = now
    /\ ring_hist' = [ring_hist EXCEPT
                        !.offered = Append(@, t),
                        !.accepted = IF s.buf88_cnt # buf88_cnt THEN Append(@, t) ELSE @]
    /\ UNCHANGED <<buf88_read, buf88_end, loop, parserVars, harnessVars, gateVars>>

\* code_time_t t = (code_time_t)(now - last_time)
EdgeDuration(now) == Sub32(now, last_time)

\* the interrupt handler, for an edge at time now
signal_change_handler(now) ==
    Enqueue(RingStore(buf88, ring_write, buf88_cnt, buf88_end, EdgeDuration(now)),
            EdgeDuration(now), now)

\* signal_collector_inject_timing(collector, t) called at time now
signal_collector_inject_timing(t, now) ==
    Enqueue(RingStore(buf88, ring_write, buf88_cnt, buf88_end, t), t, now)

Offered == Len(ring_hist.offered)

Edge ==
    /\ Offered < MaxEdges
    /\ signal_change_handler(micros + EdgeGap(Offered + 1))

\* rf_decode_task calls signal_collector_loop
LoopEnter ==
    /\ loop.pc = "idle"
    /\ loop' = [loop EXCEPT !.pc = "test"]
    /\ UNCHANGED <<buf88, ring_write, buf88_read, buf88_end, buf88_cnt, last_time, ring_hist,
                   micros, parserVars, harnessVars, gateVars>>

\* while (buf88_cnt > 0)
LoopTest ==
    /\ loop.pc = "test"
    /\ loop' = [loop EXCEPT !.pc = IF buf88_cnt > 0 THEN "read" ELSE "idle"]
    /\ UNCHANGED <<buf88, ring_write, buf88_read, buf88_end, buf88_cnt, last_time, ring_hist,
                   micros, parserVars, harnessVars, gateVars>>

\* code_time_t t = *buf88_read++
LoopRead ==
    /\ loop.pc = "read"
    /\ loop' = [loop EXCEPT !.pc = "load", !.t = buf88[buf88_read + 1]]
    /\ buf88_read' = buf88_read + 1
    /\ UNCHANGED <<buf88, ring_write, buf88_end, buf88_cnt, last_time, ring_hist,
                   micros, parserVars, harnessVars, gateVars>>

\* buf88_cnt--: the load
LoopLoad ==
    /\ loop.pc = "load"
    /\ loop' = [loop EXCEPT !.pc = "store", !.reg = buf88_cnt]
    /\ UNCHANGED <<buf88, ring_write, buf88_read, buf88_end, buf88_cnt, last_time, ring_hist,
                   micros, parserVars, harnessVars, gateVars>>

\* buf88_cnt--: the store of the decremented value (unsigned int)
LoopStore ==
    /\ loop.pc = "store"
    /\ buf88_cnt' = Sub32(loop.reg, 1)
    /\ loop' = [loop EXCEPT !.pc = "parse"]
    /\ ring_hist' = [ring_hist EXCEPT !.dequeued = @ + 1]
    /\ UNCHANGED <<buf88, ring_write, buf88_read, buf88_end, last_time,
                   micros, harnessVars, parserVars, gateVars>>

\* signal_parser_parse(collector->parser, t); wrap the read cursor; vTaskDelay(0)
LoopParse ==
    /\ loop.pc = "parse"
    /\ Deliver(signal_parser_parse(protocols, loop.t))
    /\ buf88_read' = IF buf88_read = buf88_end THEN 0 ELSE buf88_read
    /\ loop' = [loop EXCEPT !.pc = "test"]
    /\ ring_hist' = [ring_hist EXCEPT !.parsed = Append(@, loop.t)]
    /\ UNCHANGED <<buf88, ring_write, buf88_end, buf88_cnt, last_time,
                   micros, harnessVars, gateVars>>

InitRing ==
    /\ protocols = <<signal_parser_load("ev1527")>>
    /\ events = <<>>
    /\ rt = RtIdle /\ tx = TxIdle /\ snd = SndOff /\ fd = FdOff /\ rly = RlyOff
    /\ RingInit(RingCap)
    /\ micros = 0
    /\ GateOff

NextRing == Edge \/ LoopEnter \/ LoopTest \/ LoopRead \/ LoopLoad \/ LoopStore \/ LoopParse

SpecRing == InitRing /\ [][NextRing]_vars

IsPrefix(a, b) == Len(a) <= Len(b) /\ SubSeq(b, 1, Len(a)) = a

\* C4: at every point of every interleaving of the handler with the loop, the
\* shared count is the number of samples accepted minus the number dequeued.
C4_CountExact == buf88_cnt = Len(ring_hist.accepted) - ring_hist.dequeued

\* C6: as long as no sample was dropped for overflow, the durations passed to
\* signal_parser_parse are the accepted ones in their order, each once; when the
\* loop has returned on an empty count, all of them have been passed.
C6_Fifo ==
    ring_hist.accepted = ring_hist.offered =>
        /\ IsPrefix(ring_hist.parsed, ring_hist.accepted)
        /\ (loop.pc = "idle" /\ buf88_cnt = 0 => ring_hist.parsed = ring_hist.accepted)

\* the decode task is scheduled again and again (rf_decode_task loops for ever
\* with vTaskDelay between the calls); edges need not come
LoopStep == LoopEnter \/ LoopTest \/ LoopRead \/ LoopLoad \/ LoopStore

\* LoopParse as a step of the task's position: it is the only step from "parse"
ParseReturns == loop.pc = "parse" /\ loop' = [loop EXCEPT !.pc = "test"]

SpecRingFair ==
    InitRing /\ [][NextRing]_vars /\ WF_loop(LoopStep) /\ WF_loop(ParseReturns)

\* C32: under fair scheduling of the decode task every sample the handler has put
\* into the buffer is eventually passed to signal_parser_parse: once the edges have
\* stopped, the samples parsed are the samples accepted, in their order.
C32_EventuallyParsed == <>[](ring_hist.parsed = ring_hist.accepted)

(***************************************************************************)
(* SpecOverflow: the buffer of SC_BUFFERSIZE slots, filled by the handler  *)
(* and by signal_collector_inject_timing, never drained.                   *)
(***************************************************************************)
OverflowEdge ==
    /\ Offered < SC_BUFFERSIZE + OverflowExtra
    /\ signal_change_handler(micros + EdgeGap(Offered + 1))

OverflowInject ==
    /\ Offered < SC_BUFFERSIZE + OverflowExtra
    /\ signal_collector_inject_timing(EdgeGap(Offered + 1), micros + EdgeGap(Offered + 1))

InitOverflow ==
    /\ protocols = <<signal_parser_load("ev1527")>>
    /\ events = <<>>
    /\ rt = RtIdle /\ tx = TxIdle /\ snd = SndOff /\ fd = FdOff /\ rly = RlyOff
    /\ RingInit(SC_BUFFERSIZE)
    /\ micros = 0
    /\ GateOff

NextOverflow == OverflowEdge \/ OverflowInject

SpecOverflow == InitOverflow /\ [][NextOverflow]_vars

\* C5: without a dequeue the buffer holds the first min(N, 512) of the N samples
\* offered, in arrival order from the first slot on; from the 512th sample on the
\* write cursor rests at the first slot and the count at 512, so a later sample
\* changes neither the contents, nor the cursor, nor the count.
C5_Overflow ==
    /\ buf88_cnt = (IF Offered < SC_BUFFERSIZE THEN Offered ELSE SC_BUFFERSIZE)
    /\ \A k \in 1..buf88_cnt : buf88[k] = ring_hist.offered[k]
    /\ ring_write = (IF Offered < SC_BUFFERSIZE THEN Offered ELSE 0)
    /\ ring_hist.accepted = SubSeq(ring_hist.offered, 1, buf88_cnt)

C5_Witness ==
    /\ Offered = SC_BUFFERSIZE + OverflowExtra
    /\ buf88_cnt = SC_BUFFERSIZE
    /\ ring_write = 0
    /\ buf88[SC_BUFFERSIZE] = EdgeGap(SC_BUFFERSIZE)
    /\ buf88[1] = EdgeGap(1)

(***************************************************************************)
(* The pairing gate.  Decoded events are handed to                         *)
(* rf_code_received_callback directly: every string is one the parser      *)
(* delivers for an EV1527 frame.  Time passes in steps between the calls.  *)
(* obs records, in milliseconds since boot:                                *)
(*   toggled_at[r]  when an event last changed the state of relay r,       *)
(*   last           for the last event that passed the duplicate-code      *)
(*                  debounce: the relay it is eligible to toggle (paired,  *)
(*                  not learning, address matched, button mapped; else -1),*)
(*                  the time since toggled_at of that relay (-1: none) and *)
(*                  whether the relay's state changed,                     *)
(*   press          the current run of identical events in which every     *)
(*                  event came less than RF_HOLD_TIMEOUT_MS after the one  *)
(*                  before: its string, its first and latest time and the  *)
(*                  number of relay toggles in it.                         *)
(***************************************************************************)
TickMs == 100       \* resolution of the clock
HoldTicks == 13     \* clock steps in SpecHold
GateTicks == 4      \* clock steps before and after the long step in SpecGate

EvPrefix == <<"e", "v", "1", "5", "2", "7", " ">>

\* the 20 address characters of "ev1527 s<20 bits><4 bits>"
AddressOf(code) == SubSeq(code, Len(EvPrefix) + 2, Len(EvPrefix) + 21)

EligibleButton(g, ev) ==
    IF ev.ok /\ ev.address = g.pairing_state.rf_address THEN ButtonRelay(ev.data) ELSE -1

EligibleRelay(g, code) ==
    IF g.pairing_state.pairing_mode_active \/ ~g.pairing_state.is_paired
       \/ SubSeq(code, 1, Len(EvPrefix)) # EvPrefix
    THEN -1
    ELSE EligibleButton(g, rf_parse_ev1527(SubSeq(code, Len(EvPrefix) + 1, Len(code))))

PressAfter(p, code, ms, toggled) ==
    IF code = p.code /\ ms - p.last_at < RF_HOLD_TIMEOUT_MS
    THEN [p EXCEPT !.last_at = ms, !.toggles = @ + (IF toggled THEN 1 ELSE 0)]
    ELSE [code |-> code, last_at |-> ms, start |-> ms, toggles |-> IF toggled THEN 1 ELSE 0]

Toggled(g, g2, relay) == relay # -1 /\ g2.relay_states[relay] # g.relay_states[relay]

ObserveRelay(o, g, g2, code, ms, relay) ==
    [ toggled_at |-> IF Toggled(g, g2, relay)
                     THEN [o.toggled_at EXCEPT ![relay] = ms] ELSE o.toggled_at,
      press |-> PressAfter(o.press, code, ms, g2.relay_states # g.relay_states),
      last |-> IF Debounced(g, code, NowMs(ms * 1000)) THEN o.last
               ELSE [ relay |-> relay,
                      since |-> IF relay = -1 \/ o.toggled_at[relay] = -1 THEN -1
                                ELSE ms - o.toggled_at[relay],
                      flipped |-> Toggled(g, g2, relay) ] ]

Observe(o, g, g2, code, ms) == ObserveRelay(o, g, g2, code, ms, EligibleRelay(g, code))

\* the parser hands code to the callback; out is the outcome of the NVS calls,
\* should the callback make them
RfEvent(code, out) ==
    /\ gate' = rf_code_received_callback(gate, code, NowMs(micros), out)
    /\ obs' = Observe(obs, gate, gate', code, micros \div 1000)
    /\ UNCHANGED <<parserVars, harnessVars, ringVars, micros>>

Tick(ms) ==
    /\ micros' = micros + ms * 1000
    /\ UNCHANGED <<parserVars, harnessVars, ringVars, gateVars>>

(***************************************************************************)
(* SpecHold: a device that booted with a paired remote on file; events of  *)
(* two buttons of that remote and of a foreign remote.                     *)
(***************************************************************************)
HoldCodes == { EvPrefix \o EvFrame(1, 8), EvPrefix \o EvFrame(1, 4), EvPrefix \o EvFrame(2, 8) }

InitHold ==
    /\ protocols = <<signal_parser_load("ev1527")>>
    /\ events = <<>>
    /\ rt = RtIdle /\ tx = TxIdle /\ snd = SndOff /\ fd = FdOff /\ rly = RlyOff
    /\ RingOff
    /\ micros = 0
    /\ gate = GateBooted(AddrBits(1))
    /\ obs = ObsEmpty

HoldEvent == \E code \in HoldCodes : RfEvent(code, "ok")

HoldTick ==
    /\ micros \div 1000 < HoldTicks * TickMs
    /\ Tick(TickMs)

NextHold == HoldEvent \/ HoldTick

SpecHold == InitHold /\ [][NextHold]_vars

C10_OncePerPress == obs.press.toggles <= 1

\* C10 as amended: in a press the relay is toggled at most once per started
\* RF_HOLD_TIMEOUT_MS: at most 1 + (latest - first event time) div 500 times.
C10_OncePerHoldInterval ==
    obs.press.toggles <= 1 + (obs.press.last_at - obs.press.start) \div RF_HOLD_TIMEOUT_MS

\* a held button: toggled by the first event, the event 400 ms later suppressed
C10_Witness ==
    /\ obs.press.code = EvPrefix \o EvFrame(1, 8)
    /\ obs.press.toggles = 1
    /\ obs.press.last_at - obs.press.start = 4 * TickMs
    /\ obs.last.relay = 0 /\ ~obs.last.flipped /\ obs.last.since = 4 * TickMs
    /\ gate.log = "held"

(***************************************************************************)
(* SpecGate: pairing.  The device boots with or without an address on      *)
(* file; the pairing wires are touched, pairing_button_task polls the      *)
(* timeout, two remotes send.  The clock makes short steps and one step of *)
(* the length of the pairing window.                                       *)
(***************************************************************************)
GateCodes == { EvPrefix \o EvFrame(1, 8), EvPrefix \o EvFrame(2, 8) }

InitGate ==
    /\ protocols = <<signal_parser_load("ev1527")>>
    /\ events = <<>>
    /\ rt = RtIdle /\ tx = TxIdle /\ snd = SndOff /\ fd = FdOff /\ rly = RlyOff
    /\ RingOff
    /\ micros = 0
    /\ \E stored \in {<<>>, AddrBits(1)} : gate = GateBooted(stored)
    /\ obs = ObsEmpty

GateRf == \E code \in GateCodes, out \in NvsOutcomes : RfEvent(code, out)

\* pairing_button_task finds the pairing pin low
PairingButton ==
    /\ gate' = IF gate.pairing_state.pairing_mode_active THEN gate
               ELSE status_led_set(pairing_enter_mode(gate, NowMs(micros)), "PAIRING")
    /\ UNCHANGED <<parserVars, harnessVars, ringVars, micros, obs>>

\* pairing_button_task polls pairing_check_timeout
PairingPoll ==
    /\ gate' = pairing_check_timeout(gate, NowMs(micros))
    /\ UNCHANGED <<parserVars, harnessVars, ringVars, micros, obs>>

GateTick ==
    \/ /\ (micros \div 1000) % PAIRING_MODE_TIMEOUT_MS < GateTicks * TickMs
       /\ Tick(TickMs)
    \/ /\ micros \div 1000 < PAIRING_MODE_TIMEOUT_MS
       /\ Tick(PAIRING_MODE_TIMEOUT_MS)

NextGate == GateRf \/ PairingButton \/ PairingPoll \/ GateTick

SpecGate == InitGate /\ [][NextGate]_vars

\* C7: an EV1527 event that reaches the gate while learning mode is active has its
\* address persisted; when the store reports success the gate is paired with exactly
\* that address, in memory and in the store, and learning mode has ended.
C7_Learn ==
    [][\A code \in GateCodes :
          (gate.pairing_state.pairing_mode_active
                /\ ~Debounced(gate, code, NowMs(micros))
                /\ gate'.last_rf_code = code /\ RfEvent(code, "ok"))
            => /\ gate'.nvs_rf_address = AddressOf(code)
               /\ gate'.pairing_state.is_paired
               /\ gate'.pairing_state.rf_address = AddressOf(code)
               /\ ~gate'.pairing_state.pairing_mode_active]_vars

\* a device paired with remote 1 has learned remote 2
C7_Witness ==
    /\ gate.log = "paired"
    /\ gate.pairing_state.is_paired /\ ~gate.pairing_state.pairing_mode_active
    /\ gate.pairing_state.rf_address = AddrBits(2)
    /\ gate.nvs_rf_address = AddrBits(2)
    /\ gate.last_rf_code = EvPrefix \o EvFrame(2, 8)

\* C8: while paired and not learning, an EV1527 event whose address differs from
\* the stored one changes neither the pairing state, nor the persisted address, nor
\* any relay state, nor any hold timestamp.
C8_ForeignKept ==
    [][\A code \in GateCodes, out \in NvsOutcomes :
          (gate.pairing_state.is_paired
                /\ ~gate.pairing_state.pairing_mode_active
                /\ AddressOf(code) # gate.pairing_state.rf_address
                /\ gate'.last_rf_code = code /\ RfEvent(code, out))
            => /\ gate'.pairing_state = gate.pairing_state
               /\ gate'.nvs_rf_address = gate.nvs_rf_address
               /\ gate'.relay_states = gate.relay_states
               /\ gate'.last_toggle_time = gate.last_toggle_time]_vars

\* the foreign remote's event was discarded on a paired device
C8_Witness ==
    /\ gate.log = "unknown_address"
    /\ gate.pairing_state.is_paired /\ ~gate.pairing_state.pairing_mode_active
    /\ gate.pairing_state.rf_address = AddrBits(1)
    /\ gate.last_rf_code = EvPrefix \o EvFrame(2, 8)
    /\ gate.relay_states = [r \in Relays |-> 0]

\* C11: an event string equal to the last accepted one that arrives less than
\* RF_DEBOUNCE_MS after it is dropped at once: pairing state, persisted address, relay
\* states, hold timestamps and the debounce record (string and timestamp) all stay as
\* they were, whatever the gate would have done with the event.
C11_Debounce ==
    [][\A code \in GateCodes, out \in NvsOutcomes :
          (code = gate.last_rf_code
                /\ micros \div 1000 - gate.last_rf_time < RF_DEBOUNCE_MS
                /\ RfEvent(code, out))
            => gate' = gate]_vars

\* while learning, the save of an event's address failed; the same event came again
\* 100 ms later and was dropped, the debounce timestamp still that of the first
C11_Witness ==
    /\ gate.pairing_state.pairing_mode_active /\ gate.log = "save_failed"
    /\ obs.press.code = gate.last_rf_code
    /\ obs.press.last_at = gate.last_rf_time + TickMs
    /\ micros \div 1000 = obs.press.last_at

\* C12 as stated: a poll of pairing_check_timeout made more than
\* PAIRING_MODE_TIMEOUT_MS after learning was entered ends learning and leaves the gate
\* not paired and not learning; a poll at or before that time leaves learning active.
C12_TimeoutIdle ==
    [][(PairingPoll /\ gate.pairing_state.pairing_mode_active)
          => IF micros \div 1000 - gate.pairing_state.pairing_mode_start_time
                    > PAIRING_MODE_TIMEOUT_MS
             THEN ~gate'.pairing_state.pairing_mode_active /\ ~gate'.pairing_state.is_paired
             ELSE gate'.pairing_state.pairing_mode_active]_vars

\* C12 as amended: the poll ends learning exactly when more than
\* PAIRING_MODE_TIMEOUT_MS have passed since learning was entered, and it changes
\* neither the paired flag nor the address, in memory or in the store: the gate is
\* then not paired if no address was on file and paired with that address otherwise.
C12_TimeoutEnds ==
    [][(PairingPoll /\ gate.pairing_state.pairing_mode_active)
          => /\ gate'.pairing_state.pairing_mode_active
                    <=> (micros \div 1000 - gate.pairing_state.pairing_mode_start_time
                            <= PAIRING_MODE_TIMEOUT_MS)
             /\ gate'.pairing_state.is_paired = gate.pairing_state.is_paired
             /\ gate'.pairing_state.rf_address = gate.pairing_state.rf_address
             /\ gate'.nvs_rf_address = gate.nvs_rf_address]_vars

\* learning was entered on a device without a remote and has timed out: the LED
\* status is still the one set on entry, nothing was learned
C12_Witness ==
    /\ ~gate.pairing_state.pairing_mode_active /\ ~gate.pairing_state.is_paired
    /\ gate.current_led_status = "PAIRING"
    /\ micros \div 1000 - gate.pairing_state.pairing_mode_start_time > PAIRING_MODE_TIMEOUT_MS
    /\ gate.nvs_rf_address = <<>>

\* C13: when the NVS calls of pairing_save_address fail for an event received while
\* learning, the pairing state (learning flag, start time, paired flag, address) and
\* the relay states stay as they were, and any event that is not a debounced
\* repetition is learned from the state that results, should its save succeed.
C13_SaveFailed ==
    [][\A code \in GateCodes, out \in NvsOutcomes \ {"ok"} :
          (gate.pairing_state.pairing_mode_active
                /\ ~Debounced(gate, code, NowMs(micros))
                /\ gate'.last_rf_code = code /\ RfEvent(code, out))
            => /\ gate'.pairing_state = gate.pairing_state
               /\ gate'.relay_states = gate.relay_states
               /\ gate'.last_toggle_time = gate.last_toggle_time
               /\ \A later \in GateCodes :
                    rf_code_received_callback(gate', later,
                            NowMs(micros) + RF_DEBOUNCE_MS, "ok").pairing_state
                      = [gate.pairing_state EXCEPT !.is_paired = TRUE,
                                                   !.rf_address = AddressOf(later),
                                                   !.pairing_mode_active = FALSE]]_vars

\* a device paired with remote 1 is learning; the save of remote 2's address failed
C13_Witness ==
    /\ gate.log = "save_failed"
    /\ gate.pairing_state.pairing_mode_active
    /\ gate.pairing_state.is_paired /\ gate.pairing_state.rf_address = AddrBits(1)
    /\ gate.last_rf_code = EvPrefix \o EvFrame(2, 8)
    /\ gate.last_rf_time = micros \div 1000
    /\ gate.relay_states = [r \in Relays |-> 0]

(***************************************************************************)
(* SpecButtons: a device that booted with remote 1 on file; the remote     *)
(* sends every value of its four data bits.                                *)
(***************************************************************************)
ButtonTicks == 6    \* clock steps in SpecButtons

ButtonData == 0..15

ButtonCode(d) == EvPrefix \o EvFrame(1, d)

InitButtons ==
    /\ protocols = <<signal_parser_load("ev1527")>>
    /\ events = <<>>
    /\ rt = RtIdle /\ tx = TxIdle /\ snd = SndOff /\ fd = FdOff /\ rly = RlyOff
    /\ RingOff
    /\ micros = 0
    /\ gate = GateBooted(AddrBits(1))
    /\ obs = ObsEmpty

ButtonRf == \E d \in ButtonData : RfEvent(ButtonCode(d), "ok")

ButtonTick ==
    /\ micros \div 1000 < ButtonTicks * TickMs
    /\ Tick(TickMs)

NextButtons == ButtonRf \/ ButtonTick

SpecButtons == InitButtons /\ [][NextButtons]_vars

\* C14: an event of the paired remote with data 8, 4, 2, 1 that reaches the gate
\* (is not a debounced repetition) and is not held sets relay 0, 1, 2, 3 to the
\* negation of its state and that relay's hold timestamp to the current time; the
\* other relays and hold timestamps are unchanged.
C14_ButtonToggles ==
    [][\A d \in {1, 2, 4, 8} :
          LET r == (8 :> 0 @@ 4 :> 1 @@ 2 :> 2 @@ 1 :> 3)[d]
              now == micros \div 1000
          IN  (/\ gate'.last_rf_code = ButtonCode(d)
               /\ ~(ButtonCode(d) = gate.last_rf_code /\ now - gate.last_rf_time < RF_DEBOUNCE_MS)
               /\ now - gate.last_toggle_time[r] >= RF_HOLD_TIMEOUT_MS
               /\ RfEvent(ButtonCode(d), "ok"))
                => /\ gate'.relay_states = [gate.relay_states EXCEPT ![r] = 1 - @]
                   /\ gate'.last_toggle_time = [gate.last_toggle_time EXCEPT ![r] = now]]_vars

\* button A switched relay 0 on at 500 ms, button D relay 3 at 600 ms
C14_Witness ==
    /\ gate.log = "toggled"
    /\ gate.last_rf_code = ButtonCode(1)
    /\ gate.relay_states = (0 :> 1 @@ 1 :> 0 @@ 2 :> 0 @@ 3 :> 1)
    /\ gate.last_toggle_time = (0 :> 5 * TickMs @@ 1 :> 0 @@ 2 :> 0 @@ 3 :> 6 * TickMs)
    /\ micros \div 1000 = 6 * TickMs

\* C15: an event of the paired remote whose data value is none of 1, 2, 4, 8 changes
\* no relay state and no hold timestamp.
C15_UnknownButton ==
    [][\A d \in ButtonData \ {1, 2, 4, 8} :
          (gate'.last_rf_code = ButtonCode(d) /\ RfEvent(ButtonCode(d), "ok"))
            => /\ gate'.relay_states = gate.relay_states
               /\ gate'.last_toggle_time = gate.last_toggle_time]_vars

\* data 1100 (buttons A and B together) was discarded at a time when button A alone
\* would have toggled relay 0
C15_Witness ==
    /\ gate.log = "unknown_button"
    /\ gate.last_rf_code = ButtonCode(12)
    /\ gate.last_rf_time = micros \div 1000
    /\ gate.last_rf_time - gate.last_toggle_time[0] >= RF_HOLD_TIMEOUT_MS
    /\ gate.relay_states = [r \in Relays |-> 0]

(***************************************************************************)
(* SpecStore: the paired remote in memory and in the store.  Remotes are   *)
(* learned, the pairing is cleared, the device restarts; every NVS call    *)
(* may fail.  A restart runs app_main again: the statics are initialised   *)
(* anew, the clock starts at 0, pairing_init reads the store.              *)
(***************************************************************************)
StoreTicks == 3     \* clock steps between restarts in SpecStore

\* the outcome of nvs_open and nvs_get_str in pairing_init
LoadOutcomes == {"ok", "open_fail", "get_fail"}

\* app_main after a reset: pairing_init finds the stored address unless a call fails
Reboot(g, out) ==
    [GateBooted(IF out = "ok" THEN g.nvs_rf_address ELSE <<>>)
        EXCEPT !.nvs_rf_address = g.nvs_rf_address]

InitStore ==
    /\ protocols = <<signal_parser_load("ev1527")>>
    /\ events = <<>>
    /\ rt = RtIdle /\ tx = TxIdle /\ snd = SndOff /\ fd = FdOff /\ rly = RlyOff
    /\ RingOff
    /\ micros = 0
    /\ \E stored \in {<<>>, AddrBits(1)} : gate = GateBooted(stored)
    /\ obs = ObsEmpty

StoreRf == \E code \in GateCodes, out \in NvsOutcomes : RfEvent(code, out)

StoreClear ==
    /\ \E out \in ClearOutcomes : gate' = pairing_clear(gate, out)
    /\ UNCHANGED <<parserVars, harnessVars, ringVars, micros, obs>>

StoreRestart ==
    /\ \E out \in LoadOutcomes : gate' = Reboot(gate, out)
    /\ obs' = ObsEmpty
    /\ micros' = 0
    /\ UNCHANGED <<parserVars, harnessVars, ringVars>>

StoreTick ==
    /\ micros \div 1000 < StoreTicks * TickMs
    /\ Tick(TickMs)

NextStore == StoreRf \/ PairingButton \/ StoreClear \/ StoreRestart \/ StoreTick

SpecStore == InitStore /\ [][NextStore]_vars

\* C16: in every state reached by learning, clearing and restarting, with or without
\* failing store calls, the device is paired in memory exactly when the store holds
\* an address, and the address in memory is the stored one.
C16_StoreAgrees ==
    /\ gate.pairing_state.is_paired = (gate.nvs_rf_address # <<>>)
    /\ gate.pairing_state.rf_address = gate.nvs_rf_address

MaxSends == 2       \* calls of signal_collector_send
MaxSendCodes == 2   \* code characters in a string to send

\* the pin arguments of signal_collector_init: none (-1) or a GPIO number
RecvPins == {-1, 5}
SendPins == {-1, 4}

\* strcpy_protname: the characters before the first blank, PROTNAME_LEN - 1 at most
strcpy_protname(signal) ==
    LET n == IF FirstBlank(signal) = 0 THEN Len(signal) ELSE FirstBlank(signal) - 1
    IN  SubSeq(signal, 1, IF n < PROTNAME_LEN - 1 THEN n ELSE PROTNAME_LEN - 1)

\* signal_parser_get_send_repeat: p ? p->send_repeat : 0
SendRepeatOf(ps, n) == IF n = 0 THEN 0 ELSE Def(ps[n].id).send_repeat

signal_parser_get_send_repeat(ps, name) == SendRepeatOf(ps, find_protocol(ps, name))

\* variant: a send that leaves the pin at the level of the last duration
MutFinalLevel(pin) == pin

\* gpio_set_level(collector->send_pin, 0) at the end of a transmission
FinalLevel(pin) == 0

\* gpio_set_level on the send pin: the level, and an edge the receiver can capture
\* when the level changes with interrupts enabled
DrivePin(s, level) ==
    [s EXCEPT !.pin = level,
              !.self_edges = IF level # s.pin /\ s.irq /\ s.recv_pin >= 0 THEN @ + 1 ELSE @]

\* signal_collector_send up to the first test of while (repeat)
SendEnter(s, signal, repeat) ==
    IF repeat # 0 /\ s.send_pin >= 0
    THEN [s EXCEPT !.pc = "rep", !.level = 0, !.repeat = repeat,
                   !.timings = signal_parser_compose(protocols, signal, TIMINGS_LEN),
                   !.t = 0, !.calls = @ + 1, !.sent = TRUE, !.want = repeat,
                   !.reps = 0, !.driven = <<>>]
    ELSE [s EXCEPT !.pc = "idle", !.level = 0, !.repeat = repeat, !.timings = <<>>,
                   !.t = 0, !.calls = @ + 1, !.sent = FALSE, !.want = 0,
                   !.reps = 0, !.driven = <<>>]

\* the strings sent: every string of up to MaxSendCodes characters that are code
\* names of the protocol or name no code, and the protocol's complete sequences
SendChars(id) == {Def(id).codes[n].name : n \in 1..Len(Def(id).codes)} \cup {"?"}

SendSeqs(id) ==
    UNION {[1..n -> SendChars(id)] : n \in 0..MaxSendCodes} \cup CompleteSeqs(id)

SendSignals ==
    IF protocols = <<>>
    THEN {Def("ev1527").name \o <<" ", "s">>}
    ELSE {Def(protocols[1].id).name \o <<" ">> \o seq : seq \in SendSeqs(protocols[1].id)}

\* signal_collector_init: the send pin, if there is one, is an output at level 0
InitSend ==
    /\ \E ps \in {<<>>} \cup {<<signal_parser_load(id)>> : id \in ProtocolIds} : protocols = ps
    /\ events = <<>>
    /\ rt = RtIdle
    /\ tx = TxIdle /\ fd = FdOff /\ rly = RlyOff
    /\ \E recv_pin \in RecvPins, send_pin \in SendPins :
          snd = [SndOff EXCEPT !.recv_pin = recv_pin, !.send_pin = send_pin]
    /\ RingOff /\ micros = 0 /\ GateOff

SendCall ==
    /\ snd.pc = "idle" /\ snd.calls < MaxSends
    /\ \E signal \in SendSignals :
          snd' = SendEnter(snd, signal,
                           signal_parser_get_send_repeat(protocols, strcpy_protname(signal)))
    /\ UNCHANGED <<parserVars, rt, tx, fd, rly, ringVars, micros, gateVars>>

\* while (repeat) { t = timings; if (recv_pin >= 0) portDISABLE_INTERRUPTS();
\* and, when repeat is 0, the gpio_set_level(send_pin, 0) after the loop
SendRepeat ==
    /\ snd.pc = "rep"
    /\ snd' = IF snd.repeat = 0
              THEN [DrivePin(snd, FinalLevel(snd.pin)) EXCEPT !.pc = "idle"]
              ELSE [snd EXCEPT !.pc = "pulse", !.t = 0, !.driven = <<>>,
                               !.irq = IF snd.recv_pin >= 0 THEN FALSE ELSE @]
    /\ UNCHANGED <<parserVars, rt, tx, fd, rly, ringVars, micros, gateVars>>

\* while (*t) { level = !level; gpio_set_level(send_pin, level); ets_delay_us(*t++); }
SendPulse ==
    /\ snd.pc = "pulse" /\ snd.timings[snd.t + 1] # 0
    /\ snd' = [DrivePin(snd, 1 - snd.level) EXCEPT
                  !.level = 1 - snd.level, !.t = @ + 1, !.driven = Append(@, 1 - snd.level)]
    /\ UNCHANGED <<parserVars, rt, tx, fd, rly, ringVars, micros, gateVars>>

\* *t is 0: if (recv_pin >= 0) portENABLE_INTERRUPTS(); repeat--;
SendRepeatEnd ==
    /\ snd.pc = "pulse" /\ snd.timings[snd.t + 1] = 0
    /\ snd' = [snd EXCEPT !.pc = "rep", !.repeat = @ - 1, !.reps = @ + 1,
                          !.irq = IF snd.recv_pin >= 0 THEN TRUE ELSE @]
    /\ UNCHANGED <<parserVars, rt, tx, fd, rly, ringVars, micros, gateVars>>

NextSend == SendCall \/ SendRepeat \/ SendPulse \/ SendRepeatEnd

SpecSend == InitSend /\ [][NextSend]_vars

\* C18: in every repetition the levels written are high, low, high, ... from the
\* first duration on, and a call that transmits returns after send_repeat repetitions.
C18_Bursts ==
    /\ \A k \in 1..Len(snd.driven) : snd.driven[k] = k % 2
    /\ (snd.pc = "idle" /\ snd.sent => snd.reps = snd.want)

\* C19: whenever signal_collector_send has returned, and before its first call, the
\* send pin is low.
C19_IdleOnReturn == snd.pc = "idle" => snd.pin = 0

\* a transmission of an odd number of level changes has returned: the last level
\* written in the repetitions was high, the pin is low
C19_Witness ==
    /\ snd.pc = "idle" /\ snd.sent /\ snd.reps = snd.want
    /\ snd.level = 1 /\ snd.driven # <<>> /\ snd.driven[Len(snd.driven)] = 1
    /\ snd.pin = 0

\* C20: with a receive pin configured, no level change of the send pin is made while
\* interrupts are enabled.
C20_NoSelfEdges == snd.recv_pin >= 0 => snd.self_edges = 0
(***************************************************************************)
(* SpecNames: signal_collector_send called with the names of the protocols *)
(* of protocols.h and with a name of no protocol, on a parser with no, one *)
(* or two protocols loaded.  rt.sequence holds the string of the last call.*)
(***************************************************************************)
\* the names of the tables of protocols.h and a name that none of them has
SendNames == {Def(id).name : id \in ProtocolIds} \cup {<<"z", "z">>}

NameSeqs == {<<"s", "0">>, <<"B", "1">>, <<"0">>}

NameLoads ==
    { <<>>, <<signal_parser_load("it1")>>, <<signal_parser_load("ev1527")>>,
      <<signal_parser_load("it1"), signal_parser_load("ev1527")>> }

InitNames ==
    /\ protocols \in NameLoads
    /\ events = <<>>
    /\ rt = RtIdle
    /\ tx = TxIdle /\ fd = FdOff /\ rly = RlyOff
    /\ \E recv_pin \in RecvPins, send_pin \in SendPins :
          snd = [SndOff EXCEPT !.recv_pin = recv_pin, !.send_pin = send_pin]
    /\ RingOff /\ micros = 0 /\ GateOff

NameCall ==
    /\ snd.pc = "idle" /\ snd.calls < MaxSends
    /\ \E name \in SendNames, seq \in NameSeqs :
          /\ snd' = SendEnter(snd, name \o <<" ">> \o seq,
                        signal_parser_get_send_repeat(protocols,
                            strcpy_protname(name \o <<" ">> \o seq)))
          /\ rt' = [rt EXCEPT !.sequence = name \o <<" ">> \o seq]
    /\ UNCHANGED <<parserVars, tx, fd, rly, ringVars, micros, gateVars>>

NextNames == NameCall \/ SendRepeat \/ SendPulse \/ SendRepeatEnd

SpecNames == InitNames /\ [][NextNames]_vars

\* a protocol of that name is loaded
Loaded(ps, name) == \E n \in 1..Len(ps) : Def(ps[n].id).name = name

\* C37: a call of signal_collector_send with a name that no loaded protocol has
\* finds send_repeat 0, composes nothing and writes no level to the send pin.
C37_UnknownName ==
    (snd.calls > 0 /\ ~Loaded(protocols, strcpy_protname(rt.sequence)))
        => /\ snd.want = 0 /\ ~snd.sent
           /\ snd.timings = <<>> /\ snd.driven = <<>> /\ snd.pc = "idle"

(***************************************************************************)
(* SpecSession: one protocol loaded, of protocols.h or the table with a    *)
(* code of every role, and a transmitter that sends sequences of that      *)
(* protocol slot by slot: complete sequences and sequences ended too       *)
(* early.  Its clock runs at the low end, the middle or the high end of    *)
(* the tolerance; the start code is sent at that base time, the later      *)
(* slots of a sequence all at the low end or all at the high end of the    *)
(* window around it.  One stray duration may fall into a sequence, after   *)
(* NoiseSlots of its slots at most: a spike, or a pulse like the first     *)
(* slot of the start code.  fd holds                                       *)
(*   plan, ratios, pos, base   the sequence sent and how far it got,       *)
(*   noise, clean   a stray duration fell into it; none did and the        *)
(*                  session was empty when it began,                       *)
(*   pre, d, out    the protocol before the last call of                   *)
(*                  signal_parser_parse, its duration, what it delivered,  *)
(*   retries, none_valid   how often the call looked at a code again, and  *)
(*                  whether no code was valid when its loop ended,         *)
(*   kind, stray, fresh   whether the last duration was of the sequence or *)
(*                  stray; the stray duration that fell right after the    *)
(*                  first slot (pos 1), if one did; the session was empty  *)
(*                  when the sequence began.                               *)
(***************************************************************************)
SessionFrames == 2  \* sequences sent one after the other
NoiseSlots == 4     \* a stray duration falls into a sequence after this many slots at most

SessionIds == ProtocolIds \cup {"any"}

\* the first and the last code of the table that has the Data role and not the End role
DataIndex(id) ==
    {n \in 1..Len(Def(id).codes) : Def(id).codes[n].name \in DataOnlyCodes(id)}

FirstData(id) == Def(id).codes[CHOOSE n \in DataIndex(id) : \A m \in DataIndex(id) : n <= m].name

LastData(id) == Def(id).codes[CHOOSE n \in DataIndex(id) : \A m \in DataIndex(id) : n >= m].name

DataRun(id, c0, n) == Alternating(c0, FirstData(id), LastData(id), n)

\* the first code of the table that can start a sequence
FirstStart(id) ==
    Def(id).codes[CHOOSE n \in 1..Len(Def(id).codes) :
                    /\ BitAnd(Def(id).codes[n].type, CODE_TYPE_START) # 0
                    /\ \A m \in 1..(n - 1) : BitAnd(Def(id).codes[m].type, CODE_TYPE_START) = 0].name

\* sequences that reach max_code_len, sequences ended by an End-capable code at
\* min_code_len, and sequences ended by an End-capable code as their second code
\* or one code before min_code_len
SessionPlans(id) ==
    LET P == Def(id)
    IN  {DataRun(id, c0, P.max_code_len) : c0 \in CodesWith(id, CODE_TYPE_START)}
          \cup {Append(DataRun(id, FirstStart(id), n - 1), e) :
                   e \in CodesWith(id, CODE_TYPE_END),
                   n \in {2, P.min_code_len - 1, P.min_code_len}}

\* the window of a slot at the transmitter's base time
FdWindow(id, base, ratio) ==
    [lo |-> base * ratio - Radius(base * ratio, Def(id).tolerance),
     mid |-> base * ratio,
     hi |-> base * ratio + Radius(base * ratio, Def(id).tolerance)]

StartSlots(id, plan) == Len(Def(id).codes[find_code(id, plan[1])].time)

\* a spike, and a pulse as long as the first slot of the sequence's start code
FdNoiseSet(f) == {1, f.base * f.ratios[1]}

InitSession ==
    \E id \in SessionIds :
        /\ protocols = <<signal_parser_load(id)>>
        /\ events = <<>>
        /\ fd = [FdOff EXCEPT !.id = id] /\ rly = RlyOff
        /\ rt = RtIdle /\ tx = TxIdle /\ snd = SndOff
        /\ RingOff /\ micros = 0 /\ GateOff

FdDone == fd.pos = Len(fd.ratios)

FdBegin ==
    /\ FdDone
    /\ fd.nframe < SessionFrames
    /\ \E plan \in SessionPlans(fd.id), dev \in {"lo", "mid", "hi"}, jitter \in {"lo", "hi"} :
        fd' = [fd EXCEPT !.plan = plan, !.ratios = Ratios(fd.id, plan), !.pos = 0,
                         !.nframe = @ + 1,
                         !.base = FdWindow(fd.id, Def(fd.id).base_time, 1)[dev],
                         !.jitter = jitter,
                         !.noise = FALSE, !.clean = SessionEmpty(protocols[1]),
                         !.d = 0, !.pre = <<>>, !.out = <<>>,
                         !.retries = 0, !.none_valid = FALSE,
                         !.kind = "none", !.stray = [pos |-> -1, d |-> 0],
                         !.fresh = SessionEmpty(protocols[1])]
    /\ events' = <<>>
    /\ UNCHANGED <<protocols, rt, tx, snd, rly, ringVars, micros, gateVars>>

NoneValid(p) == \A n \in 1..Len(p.codes) : ~p.codes[n].valid

FdAfter(f, d, kind, loop_end, res) ==
    [f EXCEPT !.pos = IF kind = "noise" THEN @ ELSE @ + 1,
              !.noise = @ \/ kind = "noise",
              !.clean = @ /\ kind # "noise",
              !.d = d, !.pre = protocols[1], !.out = res.out,
              !.retries = loop_end.retries, !.none_valid = NoneValid(loop_end.fin.p),
              !.kind = kind,
              !.stray = IF kind = "noise" /\ f.pos = 1 THEN [pos |-> 1, d |-> d] ELSE @]

\* the edge that ends a slot: duration d reaches signal_parser_parse
FdSend(d, kind) ==
    /\ Deliver(signal_parser_parse(protocols, d))
    /\ fd' = FdAfter(fd, d, kind, ParseLoop(protocols[1], d, 1, FALSE),
                     signal_parser_parse(protocols, d))
    /\ UNCHANGED <<rt, tx, snd, rly, ringVars, micros, gateVars>>

FdStart ==
    /\ ~FdDone /\ fd.pos < StartSlots(fd.id, fd.plan)
    /\ FdSend(fd.base * fd.ratios[fd.pos + 1], "signal")

FdSlot ==
    /\ ~FdDone /\ fd.pos >= StartSlots(fd.id, fd.plan)
    /\ FdSend(FdWindow(fd.id, fd.base, fd.ratios[fd.pos + 1])[fd.jitter], "signal")

FdNoise ==
    /\ fd.pos >= 1 /\ fd.pos <= NoiseSlots /\ ~FdDone
    /\ ~fd.noise
    /\ \E d \in FdNoiseSet(fd) : FdSend(d, "noise")

NextSession == FdBegin \/ FdStart \/ FdSlot \/ FdNoise

SpecSession == InitSession /\ [][NextSession]_vars

TypeOf(id, name) == Def(id).codes[find_code(id, name)].type

LastType(f) == TypeOf(f.id, f.plan[Len(f.plan)])

\* the sequence sent is complete: its last code can end it at min_code_len or more,
\* or it has max_code_len codes
Delivers(f) ==
    \/ BitAnd(LastType(f), CODE_TYPE_END) # 0 /\ Len(f.plan) >= Def(f.id).min_code_len
    \/ Len(f.plan) = Def(f.id).max_code_len

Called == fd.pre # <<>>

\* C21: between calls of signal_parser_parse seq_len < max_code_len; inside a call
\* seq_len goes up to max_code_len at most, so seq[seq_len] = NUL is written inside
\* the MAX_SEQUENCE_LENGTH characters of seq; no delivered sequence is longer than
\* max_code_len.
C21_SeqLen ==
    \A n \in 1..Len(protocols) :
        /\ Len(protocols[n].seq) >= 0
        /\ Len(protocols[n].seq) < Def(protocols[n].id).max_code_len
        /\ (Called => Len(fd.pre.seq) + 1 <= Def(fd.id).max_code_len)
        /\ Def(protocols[n].id).max_code_len + 1 <= MAX_SEQUENCE_LENGTH
        /\ \A i \in 1..Len(events) :
              Len(events[i]) - Len(Def(fd.id).name) - 1 <= Def(fd.id).max_code_len

\* the 59th code of a cw sequence was added and the sequence delivered
C21_Witness ==
    /\ fd.id = "cw" /\ Called /\ Len(fd.pre.seq) = Def("cw").max_code_len - 1
    /\ fd.out # <<>> /\ protocols[1].seq = <<>>

\* the string the callback gets for a sequence
SeqString(id, seq) == Def(id).name \o <<" ">> \o seq

\* C22: a sequence sent into an empty session gives no callback before its last
\* code, and exactly one, with "<name> <sequence>", when its last code can end it at
\* min_code_len or more or is its max_code_len-th code; the session is then as after
\* signal_parser_load, so the sequence sent next is delivered in the same way; every
\* delivered sequence has min_code_len to max_code_len codes.
C22_Delivered ==
    /\ (fd.nframe > 0 /\ fd.clean)
          => /\ events = (IF FdDone /\ Delivers(fd) THEN <<SeqString(fd.id, fd.plan)>> ELSE <<>>)
             /\ (FdDone /\ Delivers(fd) => protocols = <<signal_parser_load(fd.id)>>)
    /\ \A i \in 1..Len(events) :
          /\ Len(events[i]) - Len(Def(fd.id).name) - 1 >= Def(fd.id).min_code_len
          /\ Len(events[i]) - Len(Def(fd.id).name) - 1 <= Def(fd.id).max_code_len

\* the second of two it2 sequences, ended by 'x' as its 34th code, was delivered
C22_Witness ==
    /\ fd.id = "it2" /\ fd.nframe = 2 /\ fd.clean /\ FdDone
    /\ Len(fd.plan) = Def("it2").min_code_len /\ LastType(fd) = CODE_TYPE_END
    /\ events = <<SeqString("it2", fd.plan)>>
    /\ fd.out = events

\* the sequence sent ended on a code that can end a sequence, before min_code_len
EndsEarly(f) ==
    BitAnd(LastType(f), CODE_TYPE_END) # 0 /\ Len(f.plan) < Def(f.id).min_code_len

\* C23 as stated: a code whose role includes End, completed below min_code_len,
\* discards the sequence: no callback, the session as after signal_parser_load.
C23_Fragment ==
    (fd.nframe > 0 /\ fd.clean /\ FdDone /\ EndsEarly(fd))
        => events = <<>> /\ protocols = <<signal_parser_load(fd.id)>>

\* C23 as amended: a code of role End, completed below min_code_len, discards the
\* sequence; a code of role Any (Data | End) below min_code_len is added to the
\* sequence like a Data code and the session goes on; no callback in either case.
C23_EndFragment ==
    (fd.nframe > 0 /\ fd.clean /\ FdDone /\ EndsEarly(fd))
        => /\ events = <<>>
           /\ (LastType(fd) = CODE_TYPE_END => protocols = <<signal_parser_load(fd.id)>>)
           /\ (LastType(fd) # CODE_TYPE_END => protocols[1].seq = fd.plan)

\* an it2 sequence ended by 'x' as its 33rd code, one below min_code_len
C23_Witness ==
    /\ fd.id = "it2" /\ fd.clean /\ FdDone
    /\ Len(fd.plan) = Def("it2").min_code_len - 1 /\ LastType(fd) = CODE_TYPE_END
    /\ Len(fd.pre.seq) = Len(fd.plan) - 1
    /\ events = <<>> /\ protocols = <<signal_parser_load("it2")>>

StartIndex(id) ==
    {n \in 1..Len(Def(id).codes) : BitAnd(Def(id).codes[n].type, CODE_TYPE_START) # 0}

\* C24: when no code is valid after the loop over the codes, the protocol is as
\* after signal_parser_load (sequence empty, every code valid, cnt and total 0),
\* nothing was delivered, and a next duration that fits the first slot of a start
\* code is counted as that slot.
C24_NoCodeLeft ==
    (Called /\ fd.none_valid)
        => /\ SessionEmpty(protocols[1])
           /\ protocols = <<signal_parser_load(fd.id)>>
           /\ fd.out = <<>>
           /\ \A n \in StartIndex(fd.id) :
                 LET next == parse_protocol(protocols[1],
                                 Def(fd.id).base_time * Def(fd.id).codes[n].time[1]).p
                 IN  next.codes[n].valid /\ next.codes[n].cnt = 1

\* a spike in the middle of a sequence, after two codes
C24_Witness ==
    /\ Called /\ fd.none_valid /\ fd.d = 1
    /\ Len(fd.pre.seq) = 2
    /\ protocols[1].seq = <<>>

Misfit(c, slot, d) == d < c.min_time[slot] \/ d > c.max_time[slot]

\* a valid start code with `cnt` slots matched does not take d as its next slot, in a
\* session without a sequence
StartSlotFails(p, cnt, d) ==
    /\ p.seq = <<>>
    /\ \E n \in StartIndex(p.id) :
          p.codes[n].valid /\ p.codes[n].cnt = cnt /\ Misfit(p.codes[n], cnt + 1, d)

\* C25 as stated: a duration that fails the first slot of a start code, in a session
\* without a sequence, is looked at again.
C25_FirstSlotRetry ==
    (Called /\ StartSlotFails(fd.pre, 0, fd.d)) => fd.retries = 1

\* C25 as amended: a call of parse_protocol looks at a code again once at most; it
\* does so exactly when, in a session without a sequence, a start code that has
\* matched its first slot does not take the duration as its second slot; the
\* protocol is reset and the duration is checked as a first slot: a start code
\* whose first slot it fits has it counted as that slot.
C25_SecondSlotRetry ==
    Called =>
        /\ fd.retries <= 1
        /\ (fd.retries = 1 <=> StartSlotFails(fd.pre, 1, fd.d))
        /\ (fd.retries = 1 =>
              \A n \in StartIndex(fd.id) :
                 (/\ fd.pre.codes[n].valid /\ fd.pre.codes[n].cnt = 1
                  /\ Misfit(fd.pre.codes[n], 2, fd.d)
                  /\ ~Misfit(signal_parser_load(fd.id).codes[n], 1, fd.d))
                    => /\ protocols[1].codes[n].valid
                       /\ protocols[1].codes[n].cnt = 1
                       /\ protocols[1].codes[n].total = fd.d)

\* a second pulse like the first slot of the start code: the start code is begun
\* again from it
C25_Witness ==
    /\ Called /\ fd.retries = 1 /\ fd.pos = 1
    /\ fd.d = fd.base * fd.ratios[1]
    /\ protocols[1].seq = <<>>
    /\ \E n \in StartIndex(fd.id) : protocols[1].codes[n].cnt = 1 /\ protocols[1].codes[n].total = fd.d

Windows(p) == [n \in 1..Len(p.codes) |-> <<p.codes[n].min_time, p.codes[n].max_time>>]

\* the windows of every slot around base * ratio
WindowsAt(id, base) ==
    [n \in 1..Len(Def(id).codes) |->
        << [tl \in 1..Len(Def(id).codes[n].time) |->
               base * Def(id).codes[n].time[tl]
                   - (base * Def(id).codes[n].time[tl] * Def(id).tolerance) \div 100],
           [tl \in 1..Len(Def(id).codes[n].time) |->
               base * Def(id).codes[n].time[tl]
                   + (base * Def(id).codes[n].time[tl] * Def(id).tolerance) \div 100] >>]

\* the stray duration fell after the first slot of a start code of several slots
\* and is like that first slot: it fits the first window and not the second
StrayStart(f) ==
    /\ f.stray.pos = 1 /\ StartSlots(f.id, f.plan) >= 2
    /\ ~Misfit(signal_parser_load(f.id).codes[find_code(f.id, f.plan[1])], 1, f.stray.d)
    /\ Misfit(signal_parser_load(f.id).codes[find_code(f.id, f.plan[1])], 2, f.stray.d)

\* C35: in the stream x, a, b, ... where x and a fit the first slot of the start
\* code, a does not fit its second slot and b, ... are the rest of a sequence sent
\* into an empty session: the call for a looks at the start code again and counts
\* a as its first slot; the start code is accepted from a and the slots after it,
\* its base time measured from them; the sequence is delivered when complete.
C35_StrayStartPulse ==
    (fd.nframe > 0 /\ fd.fresh /\ StrayStart(fd))
        => /\ (fd.pos = 1 /\ fd.kind = "noise")
                 => /\ fd.retries = 1
                    /\ protocols[1].seq = <<>>
                    /\ protocols[1].codes[find_code(fd.id, fd.plan[1])].cnt = 1
                    /\ protocols[1].codes[find_code(fd.id, fd.plan[1])].total = fd.stray.d
           /\ (fd.pos = StartSlots(fd.id, fd.plan) /\ Len(fd.plan) > 1)
                 => /\ protocols[1].seq = <<fd.plan[1]>>
                    /\ Windows(protocols[1]) = WindowsAt(fd.id, fd.base)
           /\ events = (IF FdDone /\ Delivers(fd) THEN <<SeqString(fd.id, fd.plan)>> ELSE <<>>)

\* an ev1527 frame sent right after a pulse like the first slot of its start code
\* was delivered
C35_Witness ==
    /\ fd.id = "ev1527" /\ fd.nframe = 1 /\ StrayStart(fd) /\ FdDone
    /\ fd.stray.d = fd.base
    /\ Len(fd.plan) = 25
    /\ events = <<SeqString("ev1527", fd.plan)>>

\* C40: between calls of signal_parser_parse every code of every loaded protocol
\* has 0 <= cnt < time_length <= MAX_TIMELENGTH, its windows have time_length
\* slots, so the slot read next, min_time[cnt] and max_time[cnt], is one of them;
\* and every protocol has a code that is valid.
C40_CodeCounts ==
    \A n \in 1..Len(protocols) :
        /\ \A c \in 1..Len(protocols[n].codes) :
              /\ protocols[n].codes[c].cnt >= 0
              /\ protocols[n].codes[c].cnt < Len(Def(protocols[n].id).codes[c].time)
              /\ Len(Def(protocols[n].id).codes[c].time) <= MAX_TIMELENGTH
              /\ Len(protocols[n].codes[c].min_time) = Len(Def(protocols[n].id).codes[c].time)
              /\ Len(protocols[n].codes[c].max_time) = Len(Def(protocols[n].id).codes[c].time)
        /\ \E c \in 1..Len(protocols[n].codes) : protocols[n].codes[c].valid

\* in the middle of a sequence a code of four slots has three of them, and another
\* code is no longer valid
C40_Witness ==
    /\ Called /\ protocols[1].seq # <<>>
    /\ \E c \in 1..Len(protocols[1].codes) :
          /\ protocols[1].codes[c].valid
          /\ Len(Def(fd.id).codes[c].time) = 4
          /\ protocols[1].codes[c].cnt = 3
    /\ \E c \in 1..Len(protocols[1].codes) : ~protocols[1].codes[c].valid

\* the base time measured from the start code that the last call completed
MeasuredBase(f, seq) ==
    (f.pre.codes[find_code(f.id, seq[1])].total + f.d)
        \div SumSeq(Def(f.id).codes[find_code(f.id, seq[1])].time)

\* C26: the call that accepts the first character of a sequence sets the windows
\* from base = (sum of the start code's durations) div (sum of its ratios); a call
\* that finds a sequence and leaves one leaves the windows as they are; so every
\* code of a sequence sent into an empty session is matched against the windows of
\* the base time of its start code.
C26_Recalibrated ==
    /\ (Called /\ fd.pre.seq = <<>> /\ protocols[1].seq # <<>>)
          => Windows(protocols[1]) = WindowsAt(fd.id, MeasuredBase(fd, protocols[1].seq))
    /\ (Called /\ fd.pre.seq # <<>> /\ protocols[1].seq # <<>>)
          => Windows(protocols[1]) = Windows(fd.pre)
    /\ (fd.nframe > 0 /\ fd.clean /\ protocols[1].seq # <<>>)
          => Windows(protocols[1]) = WindowsAt(fd.id, fd.base)

\* a later code of a sequence from a slow transmitter was accepted, with a last
\* duration outside the window of the nominal base time
C26_Witness ==
    /\ Called /\ fd.clean /\ Len(fd.pre.seq) >= 2 /\ Len(protocols[1].seq) = Len(fd.pre.seq) + 1
    /\ fd.base > Def(fd.id).base_time /\ fd.jitter = "hi"
    /\ Misfit(signal_parser_load(fd.id).codes[find_code(fd.id, fd.plan[Len(protocols[1].seq)])],
              Len(Def(fd.id).codes[find_code(fd.id, fd.plan[Len(protocols[1].seq)])].time),
              fd.d)
    /\ Windows(protocols[1]) = Windows(fd.pre)

\* C27: whenever a protocol has no sequence, the window of every slot is
\* [t - r, t + r] with t = base_time * ratio and r = (t * tolerance) div 100.
C27_NominalWindows ==
    \A n \in 1..Len(protocols) :
        protocols[n].seq = <<>>
            => Windows(protocols[n]) = WindowsAt(protocols[n].id, Def(protocols[n].id).base_time)

\* a sequence from a fast transmitter was delivered: the windows, which were those of
\* its base time, are the nominal ones again
C27_Witness ==
    /\ fd.nframe > 0 /\ fd.clean /\ FdDone /\ fd.out # <<>>
    /\ fd.base < Def(fd.id).base_time
    /\ Windows(fd.pre) = WindowsAt(fd.id, fd.base)
    /\ Windows(fd.pre) # Windows(protocols[1])
    /\ protocols[1].seq = <<>>
(***************************************************************************)
(* SpecCompose: signal_parser_compose called with a buffer of len entries, *)
(* on a protocol of protocols.h whose session is empty, holds a part of a  *)
(* start code, or holds a start code received from a transmitter at the    *)
(* low end, the middle or the high end of the tolerance.  rt holds the     *)
(* string, len, the protocol as it was at the call (at), and everything    *)
(* the call wrote to the buffer.                                           *)
(***************************************************************************)
\* buffers of one entry, of three entries, and the buffer of signal_collector_send
ComposeLens == {1, 3, TIMINGS_LEN}

\* the code of the table with the most slots
WidestCode(id) ==
    Def(id).codes[CHOOSE n \in 1..Len(Def(id).codes) :
                    \A m \in 1..Len(Def(id).codes) :
                        Len(Def(id).codes[n].time) >= Len(Def(id).codes[m].time)]

\* for the tables with a code of four slots or more: the shortest string of that
\* code whose slots are as many as the buffer of signal_collector_send has entries
LongSeqs(id) ==
    IF Len(WidestCode(id).time) < 4 THEN {}
    ELSE {[k \in 1..((TIMINGS_LEN + Len(WidestCode(id).time) - 1) \div Len(WidestCode(id).time))
              |-> WidestCode(id).name]}

\* short strings of code names and of characters that name no code, the complete
\* sequences, and the long strings
ComposeSeqs(id) == SendSeqs(id) \cup LongSeqs(id)

CmpIdle(id, base) ==
    [ id |-> id, round |-> 0, stage |-> "receive", sequence |-> <<>>, timings |-> <<>>,
      pos |-> 0, len |-> 0, base |-> base, at |-> <<>> ]

InitCompose ==
    \E id \in ProtocolIds, dev \in {"lo", "mid", "hi"} :
        /\ protocols = <<signal_parser_load(id)>>
        /\ events = <<>>
        /\ rt = CmpIdle(id, FdWindow(id, Def(id).base_time, 1)[dev])
        /\ tx = TxIdle /\ snd = SndOff /\ fd = FdOff /\ rly = RlyOff
        /\ RingOff /\ micros = 0 /\ GateOff

\* the next duration of a start code reaches the parser
CmpReceive ==
    /\ rt.stage = "receive"
    /\ rt.pos < Len(Ratios(rt.id, <<FirstStart(rt.id)>>))
    /\ Deliver(signal_parser_parse(protocols,
                   rt.base * Ratios(rt.id, <<FirstStart(rt.id)>>)[rt.pos + 1]))
    /\ rt' = [rt EXCEPT !.pos = @ + 1]
    /\ UNCHANGED <<tx, snd, fd, rly, ringVars, micros, gateVars>>

CmpCompose ==
    /\ rt.stage = "receive"
    /\ \E seq \in ComposeSeqs(rt.id), len \in ComposeLens :
        rt' = [rt EXCEPT !.stage = "composed",
                         !.sequence = Def(rt.id).name \o <<" ">> \o seq, !.len = len,
                         !.at = protocols[1],
                         !.timings = signal_parser_compose(protocols,
                                         Def(rt.id).name \o <<" ">> \o seq, len)]
    /\ UNCHANGED <<protocols, events, tx, snd, fd, rly, ringVars, micros, gateVars>>

NextCompose == CmpReceive \/ CmpCompose

SpecCompose == InitCompose /\ [][NextCompose]_vars

\* the code characters of the string composed
CmpCodes == SubSeq(rt.sequence, Len(Def(rt.id).name) + 2, Len(rt.sequence))

\* the characters of a sequence that name a code of the protocol
RECURSIVE Named(_, _)
Named(id, seq) ==
    IF seq = <<>> THEN <<>>
    ELSE (IF find_code(id, Head(seq)) = 0 THEN <<>> ELSE <<Head(seq)>>) \o Named(id, Tail(seq))

\* the middles of the windows of the slots of a sequence of code names
RECURSIVE Middles(_, _)
Middles(p, seq) ==
    IF seq = <<>> THEN <<>>
    ELSE [i \in 1..Len(Def(p.id).codes[find_code(p.id, Head(seq))].time) |->
             (p.codes[find_code(p.id, Head(seq))].min_time[i]
                + p.codes[find_code(p.id, Head(seq))].max_time[i]) \div 2]
         \o Middles(p, Tail(seq))

\* C28: for a string with no more code characters than len, what is written is, for
\* each character that names a code and in the order of the string, the middle
\* (min_time + max_time) div 2 of every slot of that code, then one 0; characters
\* that name no code add nothing; with the nominal windows the middles are
\* base_time * ratio.
C28_Composed ==
    (rt.stage = "composed" /\ Len(CmpCodes) <= rt.len)
        => /\ rt.timings = Middles(rt.at, Named(rt.id, CmpCodes)) \o <<0>>
           /\ \A k \in 1..(Len(rt.timings) - 1) : rt.timings[k] # 0
           /\ (rt.at.seq = <<>>
                 => rt.timings = [k \in 1..Len(Ratios(rt.id, Named(rt.id, CmpCodes))) |->
                                     Def(rt.id).base_time * Ratios(rt.id, Named(rt.id, CmpCodes))[k]]
                                  \o <<0>>)

\* a code name, then a character that names no code, composed while a start code
\* from a fast transmitter is held
C28_Witness ==
    /\ rt.stage = "composed" /\ rt.len = 3 /\ Len(CmpCodes) = 2
    /\ find_code(rt.id, CmpCodes[1]) # 0 /\ find_code(rt.id, CmpCodes[2]) = 0
    /\ rt.at.seq # <<>> /\ rt.base < Def(rt.id).base_time
    /\ Len(rt.timings) = Len(Ratios(rt.id, <<CmpCodes[1]>>)) + 1
    /\ rt.timings[1] = rt.base * Ratios(rt.id, <<CmpCodes[1]>>)[1]

\* C36: what signal_parser_compose writes for a string is what it writes for it
\* right after signal_parser_load, whatever the parser has received since.
C36_StateFree ==
    rt.stage = "composed"
        => rt.timings = signal_parser_compose(<<signal_parser_load(rt.id)>>, rt.sequence, rt.len)

\* C29: signal_parser_compose writes len entries at most, the final 0 included;
\* with len = 256, as signal_collector_send calls it, 256 entries at most.
C29_WithinLen == rt.stage = "composed" => Len(rt.timings) <= rt.len

(***************************************************************************)
(* SpecEvents: every kind of event at the callback.  The device boots with *)
(* or without an address on file; the pairing wires are touched and the    *)
(* timeout is polled; two remotes send mapped and unmapped buttons, and a  *)
(* string of another protocol arrives, as it would were its table loaded.  *)
(***************************************************************************)
EventTicks == 8     \* clock steps in SpecEvents

OtherCode == <<"i", "t", "1", " ", "B", "1", "0", "x">>

EventCodes ==
    { EvPrefix \o EvFrame(1, 8), EvPrefix \o EvFrame(1, 4), EvPrefix \o EvFrame(1, 3),
      EvPrefix \o EvFrame(2, 8), OtherCode }

InitEvents ==
    /\ protocols = <<signal_parser_load("ev1527")>>
    /\ events = <<>>
    /\ rt = RtIdle /\ tx = TxIdle /\ snd = SndOff /\ fd = FdOff /\ rly = RlyOff
    /\ RingOff
    /\ micros = 0
    /\ \E stored \in {<<>>, AddrBits(1)} : gate = GateBooted(stored)
    /\ obs = ObsEmpty

EventsRf == \E code \in EventCodes, out \in {"ok", "set_fail"} : RfEvent(code, out)

EventsTick ==
    /\ micros \div 1000 < EventTicks * TickMs
    /\ Tick(TickMs)

NextEvents == EventsRf \/ PairingButton \/ PairingPoll \/ EventsTick

SpecEvents == InitEvents /\ [][NextEvents]_vars

\* C31: a step changes last_toggle_time of a relay only if it is an event that
\* toggles that relay, and then the new time is the time of the event; every other
\* step, a suppressed or rejected event among them, leaves all hold times alone.
C31_StampOnToggle ==
    [][\A r \in Relays :
          gate'.last_toggle_time[r] # gate.last_toggle_time[r]
            => /\ gate'.relay_states[r] # gate.relay_states[r]
               /\ gate'.log = "toggled"
               /\ gate'.last_toggle_time[r] = NowMs(micros)
               /\ \A q \in Relays \ {r} :
                     gate'.last_toggle_time[q] = gate.last_toggle_time[q] ]_vars

\* a toggle at 500 ms, then an event of the same button 300 ms later found held:
\* the hold time is still that of the toggle
C31_Witness ==
    /\ gate.log = "held"
    /\ gate.last_rf_time = 8 * TickMs
    /\ gate.last_toggle_time[0] = 5 * TickMs
    /\ obs.toggled_at[0] = 5 * TickMs
    /\ gate.relay_states[0] = 1

\* the relay a string asks for: that of its four data bits when the string is an
\* EV1527 event with the given address, -1 otherwise
AskedRelay(code, address) ==
    IF Len(code) = Len(EvPrefix) + 25 /\ SubSeq(code, 1, Len(EvPrefix)) = EvPrefix
       /\ AddressOf(code) = address
    THEN ButtonRelay(DataBits(SubSeq(code, Len(EvPrefix) + 1, Len(code))))
    ELSE -1

\* C34: a step changes a relay only if, before it, a remote is paired with an
\* address on file and learning mode is inactive, and the step is an EV1527 event
\* with that address whose data bits are mapped to the relay that changes; no other
\* relay changes.  The event that pairs and events on an unpaired device change none.
C34_OnlyPairedRemote ==
    [][ gate'.relay_states # gate.relay_states
          => /\ gate.pairing_state.is_paired
             /\ gate.pairing_state.rf_address # <<>>
             /\ ~gate.pairing_state.pairing_mode_active
             /\ gate'.pairing_state = gate.pairing_state
             /\ AskedRelay(gate'.last_rf_code, gate.pairing_state.rf_address) \in Relays
             /\ \A r \in Relays :
                   gate'.relay_states[r] # gate.relay_states[r]
                     <=> r = AskedRelay(gate'.last_rf_code, gate.pairing_state.rf_address)
       ]_vars

\* remote 2 was learned on a device that booted with remote 1 on file, and its
\* button A then switched relay 0 on
C34_Witness ==
    /\ gate.log = "toggled"
    /\ gate.nvs_rf_address = AddrBits(2)
    /\ gate.pairing_state.rf_address = AddrBits(2)
    /\ gate.last_rf_code = EvPrefix \o EvFrame(2, 8)
    /\ gate.relay_states[0] = 1
    /\ obs.last.relay = 0 /\ obs.last.flipped

(***************************************************************************)
(* SpecRelays: the tasks that write the relays.  The device booted with    *)
(* remote 1 on file and all relays off, as saved.  rf_decode_task (priority*)
(* 6) runs the callback for button A of the remote; a network task         *)
(* (priority 5; relay_server_task or http_server_task) toggles or sets     *)
(* relay 0 and can be preempted by rf_decode_task between any two of its   *)
(* accesses to the statics of relays.h; led_task (priority 3) calls        *)
(* relays_check_save and runs only while the others are between calls.     *)
(* rly holds                                                               *)
(*   net              the network task: position, relay and level of the   *)
(*                    relay_set call it is in,                             *)
(*   led              the position of led_task in relays_check_save,       *)
(*   nvs_relay_state  the blob of relay states in the store,               *)
(*   toggles, sets    history: toggles and sets of relay 0 begun so far.   *)
(***************************************************************************)
RELAY_SAVE_DELAY_MS == 5000

MaxRelayOps == 3    \* relay operations begun in SpecRelays
RelayClockMs == 10000   \* the clock stops at this time in SpecRelays

\* the outcome of the NVS calls of pairing_save_relay_states, which returns nothing;
\* after nvs_set_blob succeeded and nvs_commit failed the blob is the old or the new one
SaveOutcomes == {"ok", "open_fail", "set_fail", "commit_fail", "commit_fail_stored"}

\* pairing_save_relay_states: the blob it leaves in the store
pairing_save_relay_states(stored, states, out) ==
    IF out \in {"ok", "commit_fail_stored"} THEN states ELSE stored

\* if (relay_states_dirty) { now = ...; if (now - last_relay_change_time >= DELAY)
SaveDue(g, now) ==
    g.relay_states_dirty /\ Sub32(now, g.last_relay_change_time) >= RELAY_SAVE_DELAY_MS

RelayOps == rly.toggles + rly.sets

InitRelays ==
    /\ protocols = <<signal_parser_load("ev1527")>>
    /\ events = <<>>
    /\ rt = RtIdle /\ tx = TxIdle /\ snd = SndOff /\ fd = FdOff /\ rly = RlyOff
    /\ RingOff
    /\ micros = 0
    /\ gate = GateBooted(AddrBits(1))
    /\ obs = ObsEmpty

\* the callback for button A of the paired remote, run to its end
RelayRf ==
    /\ RelayOps < MaxRelayOps
    /\ gate' = rf_code_received_callback(gate, EvPrefix \o EvFrame(1, 8), NowMs(micros), "ok")
    /\ obs' = Observe(obs, gate, gate', EvPrefix \o EvFrame(1, 8), micros \div 1000)
    /\ rly' = [rly EXCEPT !.toggles = IF gate'.relay_states # gate.relay_states
                                      THEN @ + 1 ELSE @]
    /\ UNCHANGED <<parserVars, rt, tx, snd, fd, ringVars, micros>>

\* CMD_TOGGLE_RELAY: new_state = !relay_get(id), then relay_set is entered
NetToggle ==
    /\ rly.net.pc = "idle" /\ RelayOps < MaxRelayOps
    /\ rly' = [rly EXCEPT !.net = [pc |-> "pin", relay |-> 0, state |-> 1 - relay_get(gate, 0)],
                          !.toggles = @ + 1]
    /\ UNCHANGED <<parserVars, rt, tx, snd, fd, ringVars, micros, gateVars>>

\* CMD_SET_RELAY: relay_set(id, value != 0) is entered
NetSet ==
    /\ rly.net.pc = "idle" /\ RelayOps < MaxRelayOps
    /\ \E v \in {0, 1} :
          rly' = [rly EXCEPT !.net = [pc |-> "pin", relay |-> 0, state |-> v],
                             !.sets = @ + 1]
    /\ UNCHANGED <<parserVars, rt, tx, snd, fd, ringVars, micros, gateVars>>

\* gpio_set_level(pin, state)
NetPin ==
    /\ rly.net.pc = "pin"
    /\ gate' = [gate EXCEPT !.relay_pins[rly.net.relay] = rly.net.state]
    /\ rly' = [rly EXCEPT !.net.pc = "state"]
    /\ UNCHANGED <<parserVars, rt, tx, snd, fd, ringVars, micros, obs>>

\* relay_states[relay_num] = state
NetState ==
    /\ rly.net.pc = "state"
    /\ gate' = [gate EXCEPT !.relay_states[rly.net.relay] = rly.net.state]
    /\ rly' = [rly EXCEPT !.net.pc = "dirty"]
    /\ UNCHANGED <<parserVars, rt, tx, snd, fd, ringVars, micros, obs>>

\* relay_states_dirty = true
NetDirty ==
    /\ rly.net.pc = "dirty"
    /\ gate' = [gate EXCEPT !.relay_states_dirty = TRUE]
    /\ rly' = [rly EXCEPT !.net.pc = "time"]
    /\ UNCHANGED <<parserVars, rt, tx, snd, fd, ringVars, micros, obs>>

\* last_relay_change_time = esp_timer_get_time() / 1000; relay_set returns
NetTime ==
    /\ rly.net.pc = "time"
    /\ gate' = [gate EXCEPT !.last_relay_change_time = NowMs(micros)]
    /\ rly' = [rly EXCEPT !.net.pc = "idle"]
    /\ UNCHANGED <<parserVars, rt, tx, snd, fd, ringVars, micros, obs>>

\* led_task calls relays_check_save and finds a save due
LedCheck ==
    /\ rly.led = "idle" /\ rly.net.pc = "idle"
    /\ SaveDue(gate, NowMs(micros))
    /\ rly' = [rly EXCEPT !.led = "save"]
    /\ UNCHANGED <<parserVars, rt, tx, snd, fd, ringVars, micros, gateVars>>

\* pairing_save_relay_states(relay_states, NUM_RELAYS)
LedSave ==
    /\ rly.led = "save" /\ rly.net.pc = "idle"
    /\ \E out \in SaveOutcomes :
          rly' = [rly EXCEPT
                    !.nvs_relay_state = pairing_save_relay_states(@, gate.relay_states, out),
                    !.led = "clear"]
    /\ UNCHANGED <<parserVars, rt, tx, snd, fd, ringVars, micros, gateVars>>

\* relay_states_dirty = false
LedClear ==
    /\ rly.led = "clear" /\ rly.net.pc = "idle"
    /\ gate' = [gate EXCEPT !.relay_states_dirty = FALSE]
    /\ rly' = [rly EXCEPT !.led = "idle"]
    /\ UNCHANGED <<parserVars, rt, tx, snd, fd, ringVars, micros, obs>>

\* the clock in steps of the save delay, which is longer than the hold timeout
RelayTick ==
    /\ micros \div 1000 < RelayClockMs
    /\ Tick(RELAY_SAVE_DELAY_MS)

NextRelays ==
    \/ RelayRf \/ NetToggle \/ NetSet \/ NetPin \/ NetState \/ NetDirty \/ NetTime
    \/ LedCheck \/ LedSave \/ LedClear \/ RelayTick

SpecRelays == InitRelays /\ [][NextRelays]_vars

\* C33: whenever no save is pending (the dirty flag is clear, led_task is not in
\* relays_check_save and no relay_set is under way) the relay states in the store
\* are the current ones; a change is therefore never left unsaved for good.
C33_Persisted ==
    (rly.led = "idle" /\ rly.net.pc = "idle" /\ ~gate.relay_states_dirty)
        => rly.nvs_relay_state = gate.relay_states

\* C38: when no relay operation is under way, relay_states of every relay is the
\* level last written to its pin, and, as long as relay 0 was only toggled, its
\* state is the original one (off) after an even number of toggles and the other
\* one after an odd number.
C38_Atomic ==
    rly.net.pc = "idle"
        => /\ \A r \in Relays : gate.relay_states[r] = gate.relay_pins[r]
           /\ rly.sets = 0 => gate.relay_states[0] = rly.toggles % 2

(***************************************************************************)
(* SpecStamps: the millisecond timestamps at their width.  The clock is    *)
(* esp_timer_get_time() / 1000, a 64-bit count; a timestamp is its         *)
(* conversion to uint32_t.  A value of 32 bits is written as two halves of *)
(* 16 bits, the clock as the number of times the low 32 bits wrapped and   *)
(* the two halves.  The time that truly passed since the stamp is counted  *)
(* apart, in quarters of 2^32 ms and a rest.                               *)
(***************************************************************************)
Half == 65536               \* 2^16: a uint32_t value is two halves below this
Quarter == (Half \div 2) * (Half \div 2)       \* 2^30
QuartersOfWrap == Half \div (Quarter \div Half)  \* 2^32 / 2^30
MaxStampTicks == 4          \* steps of the clock between two events
MaxStampEvents == 2         \* events per behaviour

\* the clock ms milliseconds later, 0 <= ms <= 2^30
ClockAdd(t, ms) ==
    LET lo == t.lo + (ms % Half)
        hi == t.hi + (ms \div Half) + (lo \div Half)
    IN  [wraps |-> t.wraps + (hi \div Half), hi |-> hi % Half, lo |-> lo % Half]

\* uint32_t now = esp_timer_get_time() / 1000
U32Of(t) == [hi |-> t.hi, lo |-> t.lo]

\* variant: a difference that stops at zero when the later stamp is the smaller one
MutU32Sub(a, b) ==
    IF a.hi < b.hi \/ (a.hi = b.hi /\ a.lo < b.lo) THEN [hi |-> 0, lo |-> 0]
    ELSE [hi |-> a.hi - b.hi - (IF a.lo < b.lo THEN 1 ELSE 0),
          lo |-> (a.lo - b.lo + Half) % Half]

\* a - b of two uint32_t values
U32Sub(a, b) ==
    [hi |-> (a.hi - b.hi - (IF a.lo < b.lo THEN 1 ELSE 0) + Half) % Half,
     lo |-> (a.lo - b.lo + Half) % Half]

\* a < k and a > k of a uint32_t value and an int constant, compared as unsigned
U32Less(a, k) == a.hi < k \div Half \/ (a.hi = k \div Half /\ a.lo < k % Half)

U32Greater(a, k) == a.hi > k \div Half \/ (a.hi = k \div Half /\ a.lo > k % Half)

\* now - last_rf_time < RF_DEBOUNCE_MS
DebounceTime(now, last) == U32Less(U32Sub(now, last), RF_DEBOUNCE_MS)

\* now - last_toggle_time[relay_num] < RF_HOLD_TIMEOUT_MS
HoldTime(now, last) == U32Less(U32Sub(now, last), RF_HOLD_TIMEOUT_MS)

\* now - pairing_state.pairing_mode_start_time > PAIRING_MODE_TIMEOUT_MS
LearnTimeout(now, start) == U32Greater(U32Sub(now, start), PAIRING_MODE_TIMEOUT_MS)

\* the time that passed, ms milliseconds later
PassedAdd(e, ms) == [q |-> e.q + (e.r + ms) \div Quarter, r |-> (e.r + ms) % Quarter]

\* the clock at the first event: at boot, a little later, and shortly before the
\* low 32 bits reach 2^31 and 2^32
StampClocks ==
    { [wraps |-> 0, hi |-> 0, lo |-> 0],
      [wraps |-> 0, hi |-> 0, lo |-> RF_HOLD_TIMEOUT_MS],
      [wraps |-> 0, hi |-> Half \div 2 - 1, lo |-> Half - RF_DEBOUNCE_MS],
      [wraps |-> 0, hi |-> Half - 1, lo |-> Half - 1],
      [wraps |-> 0, hi |-> Half - 1, lo |-> Half - RF_DEBOUNCE_MS],
      [wraps |-> 0, hi |-> Half - 1, lo |-> Half - PAIRING_MODE_TIMEOUT_MS] }

\* the steps of the clock between two events
StampSteps ==
    { 1, RF_DEBOUNCE_MS - 1, RF_HOLD_TIMEOUT_MS - 1, PAIRING_MODE_TIMEOUT_MS - 1, Quarter }

NoTime == [q |-> 0, r |-> 0]

\* the first event happened and left its stamp
InitStamps ==
    /\ protocols = <<>>
    /\ events = <<>>
    /\ \E t \in StampClocks :
          rt = [stage |-> "stamps", clock |-> t, stamp |-> U32Of(t),
                passed |-> NoTime, wrapped |-> FALSE, ticks |-> 0, events |-> 0,
                seen |-> NoTime, seen_wrapped |-> FALSE,
                debounced |-> FALSE, held |-> FALSE, timed_out |-> FALSE]
    /\ tx = TxIdle /\ snd = SndOff /\ fd = FdOff /\ rly = RlyOff
    /\ RingOff /\ micros = 0 /\ GateOff

\* time passes
StampTick ==
    /\ rt.stage = "stamps" /\ rt.events < MaxStampEvents /\ rt.ticks < MaxStampTicks
    /\ \E ms \in StampSteps :
          rt' = [rt EXCEPT !.clock = ClockAdd(@, ms),
                           !.passed = PassedAdd(@, ms), !.ticks = @ + 1,
                           !.wrapped = @ \/ ClockAdd(rt.clock, ms).wraps # rt.clock.wraps]
    /\ UNCHANGED <<parserVars, tx, snd, fd, rly, ringVars, micros, gateVars>>

\* the next event: the three comparisons of its time with the stamp, and the new stamp
StampEvent ==
    /\ rt.stage = "stamps" /\ rt.events < MaxStampEvents
    /\ LET now == U32Of(rt.clock)
       IN  rt' = [rt EXCEPT !.debounced = DebounceTime(now, rt.stamp),
                            !.held = HoldTime(now, rt.stamp),
                            !.timed_out = LearnTimeout(now, rt.stamp),
                            !.seen = rt.passed, !.seen_wrapped = rt.wrapped,
                            !.stamp = now, !.passed = NoTime, !.wrapped = FALSE, !.ticks = 0,
                            !.events = @ + 1]
    /\ UNCHANGED <<parserVars, tx, snd, fd, rly, ringVars, micros, gateVars>>

NextStamps == StampTick \/ StampEvent

SpecStamps == InitStamps /\ [][NextStamps]_vars

\* an event was compared with a stamp taken less than 2^32 ms before it
StampCompared == rt.stage = "stamps" /\ rt.events > 0 /\ rt.seen.q < QuartersOfWrap

\* C39: when less than 2^32 ms passed between two events, the debounce, hold and
\* learning-timeout comparisons of their 32-bit stamps decide as the time that
\* passed decides, also when the 32-bit counter wrapped in between.
C39_WrapDecisions ==
    StampCompared
        => /\ rt.debounced = (rt.seen.q = 0 /\ rt.seen.r < RF_DEBOUNCE_MS)
           /\ rt.held = (rt.seen.q = 0 /\ rt.seen.r < RF_HOLD_TIMEOUT_MS)
           /\ rt.timed_out = ~(rt.seen.q = 0 /\ rt.seen.r <= PAIRING_MODE_TIMEOUT_MS)

\* the counter wrapped between a stamp and an event within the hold time of it but
\* past the debounce time
C39_Witness ==
    /\ StampCompared /\ rt.seen_wrapped
    /\ rt.held /\ ~rt.debounced

\* the counter wrapped and the learning timeout ran out
C39_WitnessTimeout ==
    /\ StampCompared /\ rt.seen_wrapped
    /\ rt.timed_out /\ rt.seen.q = 0

=============================================================================
